---- MODULE Spec2Model ----
(***************************************************************************)
(* A model of three pieces of the resolver library:                        *)
(*   - the ranked RR array of lib/utils.c (kr_ranked_rrarray_add,          *)
(*     kr_ranked_rrarray_set_wire, to_wire_ensure_unique, rrsets_match);   *)
(*   - the RRSIG validation of lib/dnssec.c (validate_rrsig_rr,            *)
(*     kr_rrset_validate, kr_rrset_validate_with_key, kr_dnskeys_trusted); *)
(*   - the result life cycle of lib/context.c (kr_result_init,             *)
(*     kr_result_deinit);                                                  *)
(*   - the name, address, key and packet helpers and the buffered random   *)
(*     bytes of lib/utils.c.                                               *)
(* C arrays are 0-based; the sequences here are 1-based, so the C index i  *)
(* is the position i + 1.                                                  *)
(***************************************************************************)
EXTENDS Integers, Sequences, FiniteSets, TLC

VARIABLES
    array,      \* ranked_rr_array_t: the sequence of ranked_rr_array_entry_t
    ndebug,     \* whether the build defines NDEBUG (assert() compiled out)
    last,       \* the last call made on the array: its arguments and result
    vin,        \* the arguments of a call of a function without state
    vout,       \* the call made with them and what it returned
    result,     \* struct kr_result: the ans and txn pointers
    pkts,       \* the answer packets allocated so far: live or freed
    txns,       \* the cache transactions begun so far
    cret,       \* the last call on the result and what it returned
    crashed,    \* whether the process was aborted
    rnd_buf,    \* kr_rnd_buffered: the static buffer buf of random bytes
    buf_begin,  \* kr_rnd_buffered: the index of the first unused byte of buf
    rnd_calls,  \* the number of gnutls_rnd calls made so far
    handed      \* the random bytes kr_rnd_buffered has handed out so far

rrvars == <<array, ndebug, last>>
valvars == <<vin, vout>>
ctxvars == <<result, pkts, txns, cret, crashed>>
rndvars == <<rnd_buf, buf_begin, rnd_calls, handed>>
vars == <<array, ndebug, last, vin, vout, result, pkts, txns, cret, crashed, rnd_buf, buf_begin, rnd_calls, handed>>

\* ---------------------------------------------------------------- bounds

\* Longest ranked array built where the to_wire flags are examined, where
\* merging is examined, and where the rank of an entry is examined.
MaxWireLen == 2
MaxMergeLen == 3
MaxRankLen == 2

\* Most answer packets allocated, most cache transactions begun, and most
\* commits of one transaction.
MaxPkts == 3
MaxTxns == 2
MaxCommits == 2

\* Most labels of a name handed to knot_dname_lf2wire.
MaxLabels == 4

\* Most labels of such a name when its labels may hold a zero byte.
MaxZeroLabels == 2

\* ------------------------------------------------------- error codes

\* kr_ok() and the errno values the modelled functions return (negated by
\* kr_error()).
kr_ok == 0
EINVAL == 22
EEXIST == 17
ENOMEM == 12
EILSEQ == 84
ERANGE == 34
ENOENT == 2

kr_error(x) == -x

\* ------------------------------------------------------ ranked RR array

\* Query uids, ranks and rdata items the calls are made with.
Uids == {1, 2}
Ranks == {1, 2}
RdataIds == {1, 2}

\* The identity part of the RR sets the calls are made with: owner, class,
\* type and, for an RRSIG, the covered type read from its first rdata.
RRIdents ==
    { [owner |-> "a", rclass |-> "IN", type |-> "A",     covered |-> "-"],
      [owner |-> "b", rclass |-> "IN", type |-> "A",     covered |-> "-"],
      [owner |-> "a", rclass |-> "IN", type |-> "RRSIG", covered |-> "A"],
      [owner |-> "a", rclass |-> "IN", type |-> "RRSIG", covered |-> "NS"] }

MergeIdents == {id \in RRIdents : id.type = "A"}

\* An RR set as handed to kr_ranked_rrarray_add: one record per call.
mk_rr(id, d) ==
    [owner |-> id.owner, rclass |-> id.rclass, type |-> id.type,
     covered |-> id.covered, rdata |-> {d}]

\* Whether two RR sets would form the same set.
rrsets_match(rr1, rr2) ==
    LET match0 == rr1.type = rr2.type /\ rr1.rclass = rr2.rclass
        match1 == IF match0 /\ rr2.type = "RRSIG"
                  THEN match0 /\ rr1.covered = rr2.covered
                  ELSE match0
    IN  match1 /\ rr1.owner = rr2.owner

\* Other entries that would form the same RR set as arr[index] get
\* to_wire = FALSE.  The loop never changes e0 (it skips e0's query), so the
\* order of the iteration does not show in the result.
\* nd: the build defines NDEBUG; otherwise assert(false) aborts the process.
to_wire_ensure_unique(arr, index, nd) ==
    IF ~(index >= 1 /\ index <= Len(arr))
    THEN [ret |-> kr_error(EINVAL), arr |-> arr, asserted |-> ~nd]
    ELSE LET e0 == arr[index]
         IN  IF ~e0.to_wire
             THEN [ret |-> kr_ok, arr |-> arr, asserted |-> FALSE]
             ELSE [ret |-> kr_ok, asserted |-> FALSE,
                   arr |-> [i \in 1..Len(arr) |->
                       IF arr[i].qry_uid = e0.qry_uid \/ ~arr[i].to_wire
                       THEN arr[i]
                       ELSE IF rrsets_match(arr[i].rr, e0.rr)
                            THEN [arr[i] EXCEPT !.to_wire = FALSE]
                            ELSE arr[i]]]

\* The search loop of kr_ranked_rrarray_add, from position i down: the
\* position of the entry to merge with, or 0 when the loop ends without one.
RECURSIVE find_stashed(_, _, _, _)
find_stashed(arr, rr, qry_uid, i) ==
    IF i < 1 THEN 0
    ELSE IF arr[i].yielded THEN 0
    ELSE IF arr[i].qry_uid # qry_uid THEN 0
    ELSE IF ~rrsets_match(arr[i].rr, rr) THEN find_stashed(arr, rr, qry_uid, i - 1)
    ELSE i

\* The entry kr_ranked_rrarray_add appends.
new_entry(rr, rank, to_wire, qry_uid) ==
    [qry_uid |-> qry_uid, rr |-> rr, rank |-> rank, revalidation_cnt |-> 0,
     cached |-> FALSE, yielded |-> FALSE, to_wire |-> to_wire]

\* kr_ranked_rrarray_add that raises the rank of the entry it merges into
\* instead of refusing a different rank.
kr_ranked_rrarray_add_setrank(arr, rr, rank, to_wire, qry_uid, oom, nd) ==
    LET s == find_stashed(arr, rr, qry_uid, Len(arr))
    IN  IF s # 0
        THEN [ret |-> kr_ok, asserted |-> FALSE,
              arr |-> [arr EXCEPT ![s].to_wire = arr[s].to_wire \/ to_wire,
                                  ![s].rank = rank,
                                  ![s].rr.rdata = arr[s].rr.rdata \cup rr.rdata]]
        ELSE IF oom
        THEN [ret |-> kr_error(ENOMEM), arr |-> arr, asserted |-> FALSE]
        ELSE LET pushed == Append(arr, new_entry(rr, rank, to_wire, qry_uid))
             IN  to_wire_ensure_unique(pushed, Len(pushed), nd)

\* kr_ranked_rrarray_add(array, rr, rank, to_wire, qry_uid, pool).
\* oom: the pool refuses the first allocation the call asks for.
\* nd:  the build defines NDEBUG; otherwise assert(false) aborts the process.
kr_ranked_rrarray_add(arr, rr, rank, to_wire, qry_uid, oom, nd) ==
    LET s == find_stashed(arr, rr, qry_uid, Len(arr))
    IN  IF s # 0
        THEN \* Found the entry to merge with.  Check consistency and merge.
             IF ~(arr[s].rank = rank /\ ~arr[s].cached)
             THEN [ret |-> kr_error(EEXIST), arr |-> arr, asserted |-> ~nd]
             ELSE LET wired == [arr EXCEPT ![s].to_wire = arr[s].to_wire \/ to_wire]
                  IN  IF oom
                      THEN \* knot_rdataset_merge fails after to_wire was set
                           [ret |-> kr_error(ENOMEM), arr |-> wired,
                            asserted |-> FALSE]
                      ELSE [ret |-> kr_ok, asserted |-> FALSE,
                            arr |-> [wired EXCEPT ![s].rr.rdata =
                                        arr[s].rr.rdata \cup rr.rdata]]
        ELSE \* No stashed rrset found, add.
             IF oom
             THEN [ret |-> kr_error(ENOMEM), arr |-> arr, asserted |-> FALSE]
             ELSE LET pushed == Append(arr, new_entry(rr, rank, to_wire, qry_uid))
                  IN  to_wire_ensure_unique(pushed, Len(pushed), nd)

\* The extraCheck callbacks the calls are made with; "NULL" is no callback.
Preds == {"NULL", "is_wire", "is_rrsig"}

extraCheck(pred, entry) ==
    CASE pred = "is_wire"   -> entry.to_wire
      [] pred = "is_rrsig"  -> entry.rr.type = "RRSIG"
      [] OTHER              -> TRUE

\* The loop of kr_ranked_rrarray_set_wire from position i on.
RECURSIVE set_wire_from(_, _, _, _, _, _, _)
set_wire_from(arr, i, to_wire, qry_uid, check_dups, pred, nd) ==
    IF i > Len(arr) THEN [ret |-> kr_ok, arr |-> arr, asserted |-> FALSE]
    ELSE IF arr[i].qry_uid # qry_uid
    THEN set_wire_from(arr, i + 1, to_wire, qry_uid, check_dups, pred, nd)
    ELSE IF pred # "NULL" /\ ~extraCheck(pred, arr[i])
    THEN set_wire_from(arr, i + 1, to_wire, qry_uid, check_dups, pred, nd)
    ELSE LET set == [arr EXCEPT ![i].to_wire = to_wire]
         IN  IF check_dups
             THEN LET u == to_wire_ensure_unique(set, i, nd)
                  IN  IF u.ret # 0 THEN u
                      ELSE set_wire_from(u.arr, i + 1, to_wire, qry_uid,
                                         check_dups, pred, nd)
             ELSE set_wire_from(set, i + 1, to_wire, qry_uid, check_dups, pred, nd)

\* kr_ranked_rrarray_set_wire that ignores the extraCheck callback.
kr_ranked_rrarray_set_wire_nopred(arr, to_wire, qry_uid, check_dups, pred, nd) ==
    set_wire_from(arr, 1, to_wire, qry_uid, check_dups, "NULL", nd)

\* kr_ranked_rrarray_set_wire(array, to_wire, qry_uid, check_dups, extraCheck)
kr_ranked_rrarray_set_wire(arr, to_wire, qry_uid, check_dups, pred, nd) ==
    set_wire_from(arr, 1, to_wire, qry_uid, check_dups, pred, nd)

\* ------------------------------------------------------------- actions

NoCall == [op |-> "none", ret |-> kr_ok, asserted |-> FALSE]

\* The process is running: no assert() has aborted it.
Running == ~last.asserted

\* No validation call is being made.
IdleVal == vin = [kind |-> "none"] /\ vout = [op |-> "none"]

\* No result has been set up: the struct kr_result is uninitialised memory.
IdleCtx ==
    /\ result = [init |-> FALSE]
    /\ pkts = << >> /\ txns = << >>
    /\ cret = [op |-> "none"]
    /\ crashed = FALSE

\* sizeof(buf) of kr_rnd_buffered: 512 / 8.
RndBufSize == 64

\* A random byte is named by the gnutls_rnd call that produced it and its
\* index in that call's output; the bytes of call 0 are those of the static
\* buffer before any call, which no gnutls_rnd call has produced.
rnd_bytes(call, n) == [i \in 1..n |-> <<call, i - 1>>]

\* kr_rnd_buffered has not been called: buf_begin = sizeof(buf).
IdleRnd ==
    /\ rnd_buf = rnd_bytes(0, RndBufSize)
    /\ buf_begin = RndBufSize
    /\ rnd_calls = 0
    /\ handed = {}

InitRR ==
    /\ array = << >>
    /\ ndebug \in BOOLEAN
    /\ last = NoCall
    /\ IdleVal /\ IdleCtx /\ IdleRnd

\* A call of kr_ranked_rrarray_add with arguments from the given set; the
\* calls that would make the array longer than maxlen are left out.
AddFrom(maxlen, calls) ==
    /\ Running
    /\ \E c \in calls, qry_uid \in Uids :
          LET rr == mk_rr(c.id, c.d)
              r  == kr_ranked_rrarray_add(array, rr, c.rank, c.to_wire, qry_uid,
                                          c.oom, ndebug)
          IN  /\ Len(r.arr) <= maxlen
              /\ array' = r.arr
              /\ last' = [op |-> "add", rr |-> rr, rank |-> c.rank,
                          to_wire |-> c.to_wire, qry_uid |-> qry_uid,
                          oom |-> c.oom, ret |-> r.ret, asserted |-> r.asserted]
    /\ UNCHANGED <<ndebug, valvars, ctxvars, rndvars>>

\* Calls that differ in everything the to_wire flags depend on; the pool is
\* exhausted in some calls for the first RR set only.
WireCalls ==
    {c \in [id : RRIdents, d : {1}, rank : {1}, to_wire : BOOLEAN, oom : BOOLEAN] :
        c.oom => (c.id.owner = "a" /\ c.id.type = "A")}

AddWire == AddFrom(MaxWireLen, WireCalls)

\* Calls that differ in everything merging depends on: two RR sets, the first
\* with two rdata items and two ranks; the pool is exhausted in some calls.
MergeCalls ==
    {c \in [id : MergeIdents, d : RdataIds, rank : Ranks, to_wire : {FALSE},
            oom : BOOLEAN] :
        /\ c.id.owner = "b" => (c.d = 1 /\ c.rank = 1)
        /\ c.rank = 2 => c.d = 1
        /\ c.oom => (c.d = 1 /\ c.rank = 1)}

AddMerge == AddFrom(MaxMergeLen, MergeCalls)

AddRank == AddFrom(MaxRankLen, MergeCalls)

\* A call of kr_ranked_rrarray_set_wire with check_dups from the given set.
SetWireFrom(checks) ==
    /\ Running
    /\ \E to_wire \in BOOLEAN, qry_uid \in Uids, check_dups \in checks,
          pred \in Preds :
          LET r == kr_ranked_rrarray_set_wire(array, to_wire, qry_uid,
                                              check_dups, pred, ndebug)
          IN  /\ array' = r.arr
              /\ last' = [op |-> "set_wire", to_wire |-> to_wire,
                          qry_uid |-> qry_uid, check_dups |-> check_dups,
                          pred |-> pred, ret |-> r.ret, asserted |-> r.asserted]
    /\ UNCHANGED <<ndebug, valvars, ctxvars, rndvars>>

SetWire == SetWireFrom(BOOLEAN)

SetWireChecked == SetWireFrom({TRUE})

NextWire == AddWire \/ SetWire

SpecWire == InitRR /\ [][NextWire]_vars

\* The calls the to-wire uniqueness is stated for: every kr_ranked_rrarray_add
\* and the kr_ranked_rrarray_set_wire calls with check_dups = true.
NextUnique == AddWire \/ SetWireChecked

SpecUnique == InitRR /\ [][NextUnique]_vars

\* The code that fills the array marks the entry it has just added as taken
\* from the cache.
MarkCached ==
    /\ Running
    /\ array # << >> /\ ~array[Len(array)].cached
    /\ array' = [array EXCEPT ![Len(array)].cached = TRUE]
    /\ last' = [op |-> "mark", ret |-> kr_ok, asserted |-> FALSE]
    /\ UNCHANGED <<ndebug, valvars, ctxvars, rndvars>>

\* The code that yields an answer marks the entry it has just added as
\* yielded.
MarkYielded ==
    /\ Running
    /\ array # << >> /\ ~array[Len(array)].yielded
    /\ array' = [array EXCEPT ![Len(array)].yielded = TRUE]
    /\ last' = [op |-> "mark", ret |-> kr_ok, asserted |-> FALSE]
    /\ UNCHANGED <<ndebug, valvars, ctxvars, rndvars>>

NextMerge == AddMerge \/ MarkCached \/ MarkYielded

NextRank == AddRank \/ MarkCached \/ MarkYielded

SpecRank == InitRR /\ [][NextRank]_vars

SpecMerge == InitRR /\ [][NextMerge]_vars

\* -------------------------------------------------------------- DNSSEC

\* Most RR sets a packet section holds, and most keys a DNSKEY set holds
\* where the choice of the key is examined.
MaxSets == 2
MaxKeys == 2

\* Possibly generated by using wildcard expansion.
FLG_WILDCARD_EXPANSION == 1

\* Names are sequences of labels, the leftmost label first; the root label
\* is left out.
knot_dname_labels(name) == Len(name)

knot_dname_is_wildcard(name) == Len(name) >= 1 /\ name[1] = "*"

\* The NULL pointer, and the NULL key pointer.  An object a pointer argument
\* points to is a record with null = FALSE; zone_name and the owners are names
\* and never NULL.
NULL == [null |-> TRUE]
NullKey == NULL

\* The place a key pointer is returned to (struct dseckey **key), and a name
\* given as a pointer argument.
KeyOut == [null |-> FALSE]

mk_name(name) == [null |-> FALSE, name |-> name]

\* What the library calls of one kr_dnssec_key_from_rdata call do: whether
\* dnssec_key_new and dnssec_key_set_dname succeed.
LibOk == [key_new |-> TRUE, set_dname |-> TRUE]

\* kr_dnssec_key_from_rdata(key, kown, rdata, rdlen): rdlen is rdata.rdlen.
\* dnssec_key_set_rdata refuses a malformed rdata; the failures of the library
\* calls are all reported as ENOMEM.
kr_dnssec_key_from_rdata(key, kown, rdata, lib) ==
    IF key.null \/ rdata.null \/ rdata.rdlen = 0
    THEN [ret |-> kr_error(EINVAL), key |-> NullKey]
    ELSE IF ~lib.key_new
    THEN [ret |-> kr_error(ENOMEM), key |-> NullKey]
    ELSE IF ~rdata.wellformed
    THEN [ret |-> kr_error(ENOMEM), key |-> NullKey]
    ELSE IF ~kown.null /\ ~lib.set_dname
    THEN [ret |-> kr_error(ENOMEM), key |-> NullKey]
    ELSE [ret |-> kr_ok,
          key |-> [null |-> FALSE, keytag |-> rdata.tag, pub |-> rdata.pub,
                   alg |-> rdata.alg]]

\* The outcomes of the library calls of the kr_dnssec_key_from_rdata call made
\* for the key at key_pos, where libs names the positions they fail at.
lib_at(libs, key_pos) ==
    [key_new |-> key_pos \notin libs.key_new_fails,
     set_dname |-> key_pos \notin libs.set_dname_fails]

\* validate_rrsig_rr without the expiration check (bullet 5).
validate_rrsig_rr_noexpiry(covered, rrsigs, sig_pos, keys, key_pos, key, zone_name, timestamp) ==
    LET sig == rrsigs.rrs[sig_pos]
        dname_labels == IF knot_dname_is_wildcard(covered.owner)
                        THEN knot_dname_labels(covered.owner) - 1
                        ELSE knot_dname_labels(covered.owner)
        flags == IF sig.labels < dname_labels THEN FLG_WILDCARD_EXPANSION ELSE 0
        failed == [ret |-> kr_error(EINVAL), flags |-> 0]
    IN  IF key.null THEN failed
        ELSE IF covered.rclass # rrsigs.rclass \/ covered.owner # rrsigs.owner
        THEN failed
        ELSE IF sig.signer_name # zone_name THEN failed
        ELSE IF sig.type_covered # covered.type THEN failed
        ELSE IF sig.labels > dname_labels THEN failed
        ELSE IF sig.inception > timestamp
        THEN [ret |-> kr_error(EINVAL), flags |-> flags]
        ELSE IF \/ keys.owner # sig.signer_name
                \/ keys.rrs[key_pos].alg # sig.algorithm
                \/ key.keytag # sig.key_tag
        THEN [ret |-> kr_error(EINVAL), flags |-> flags]
        ELSE [ret |-> kr_ok, flags |-> flags]

\* Check the RRSIG RR validity according to RFC4035 5.3.1: the return value
\* and the flags the call leaves in *flags (which the caller had set to 0).
validate_rrsig_rr(covered, rrsigs, sig_pos, keys, key_pos, key, zone_name, timestamp) ==
    LET sig == rrsigs.rrs[sig_pos]
        \* bullet 4: the asterisk does not count
        dname_labels == IF knot_dname_is_wildcard(covered.owner)
                        THEN knot_dname_labels(covered.owner) - 1
                        ELSE knot_dname_labels(covered.owner)
        flags == IF sig.labels < dname_labels THEN FLG_WILDCARD_EXPANSION ELSE 0
        failed == [ret |-> kr_error(EINVAL), flags |-> 0]
    IN  IF key.null THEN failed
        \* bullet 1
        ELSE IF covered.rclass # rrsigs.rclass \/ covered.owner # rrsigs.owner
        THEN failed
        \* bullet 2
        ELSE IF sig.signer_name # zone_name THEN failed
        \* bullet 3
        ELSE IF sig.type_covered # covered.type THEN failed
        \* bullet 4
        ELSE IF sig.labels > dname_labels THEN failed
        \* bullet 5
        ELSE IF sig.expiration < timestamp
        THEN [ret |-> kr_error(EINVAL), flags |-> flags]
        \* bullet 6
        ELSE IF sig.inception > timestamp
        THEN [ret |-> kr_error(EINVAL), flags |-> flags]
        \* bullet 7
        ELSE IF \/ keys.owner # sig.signer_name
                \/ keys.rrs[key_pos].alg # sig.algorithm
                \/ key.keytag # sig.key_tag
        THEN [ret |-> kr_error(EINVAL), flags |-> flags]
        ELSE [ret |-> kr_ok, flags |-> flags]

\* wildcard_radix_len_diff that leaves the asterisk of a wildcard owner out
\* of the count, as validate_rrsig_rr does.
wildcard_radix_len_diff_noasterisk(expanded, rrsigs, sig_pos) ==
    (IF knot_dname_is_wildcard(expanded)
     THEN knot_dname_labels(expanded) - 1
     ELSE knot_dname_labels(expanded)) - rrsigs.rrs[sig_pos].labels

\* The number of labels that have been added by wildcard expansion.
wildcard_radix_len_diff(expanded, rrsigs, sig_pos) ==
    knot_dname_labels(expanded) - rrsigs.rrs[sig_pos].labels

\* The owner RFC 4035 5.3.2 verifies a signature with: the owner itself, or
\* "*." and the rightmost labels of it when the signature has fewer labels.
rfc_signed_owner(owner, labels) ==
    LET n == IF knot_dname_is_wildcard(owner) THEN Len(owner) - 1 ELSE Len(owner)
    IN  IF labels >= n THEN owner
        ELSE <<"*">> \o SubSeq(owner, Len(owner) - labels + 1, Len(owner))

\* kr_check_signature: the covered RR set is re-owned to the wildcard
\* ancestor by trimming trim_labels leading labels; the signature verifies
\* when it is intact, was made with the key and covers that owner.
kr_check_signature(rrsigs, pos, key, covered, trim_labels) ==
    LET sig == rrsigs.rrs[pos]
        reowned == IF trim_labels = 0 THEN covered.owner
                   ELSE <<"*">> \o SubSeq(covered.owner, trim_labels + 1,
                                          Len(covered.owner))
    IN  IF /\ sig.intact
           /\ sig.made_by = key.pub
           /\ reowned = rfc_signed_owner(covered.owner, sig.labels)
        THEN kr_ok
        ELSE kr_error(EINVAL)

\* The wildcard answer checks on the authority section of the packet.
kr_nsec_wildcard_answer_response_check(pkt, owner) == pkt.nsec_ret

kr_nsec3_wildcard_answer_response_check(pkt, owner, trim_to_next) ==
    IF trim_to_next \in pkt.nsec3_ok THEN kr_ok ELSE kr_error(ENOENT)

\* The wildcard answer check that hands trim_labels itself to the NSEC3
\* check.
wildcard_answer_check_trim(pkt, covered, has_nsec3, trim_labels) ==
    IF ~has_nsec3
    THEN [wc |-> "nsec", wc_arg |-> 0,
          wc_ret |-> kr_nsec_wildcard_answer_response_check(pkt, covered.owner)]
    ELSE [wc |-> "nsec3", wc_arg |-> trim_labels,
          wc_ret |-> kr_nsec3_wildcard_answer_response_check(
                         pkt, covered.owner, trim_labels)]

\* The check made for a signature with FLG_WILDCARD_EXPANSION set: which
\* check is called, with which argument, and what it returns.
wildcard_answer_check(pkt, covered, has_nsec3, trim_labels) ==
    IF ~has_nsec3
    THEN [wc |-> "nsec", wc_arg |-> 0,
          wc_ret |-> kr_nsec_wildcard_answer_response_check(pkt, covered.owner)]
    ELSE [wc |-> "nsec3", wc_arg |-> trim_labels - 1,
          wc_ret |-> kr_nsec3_wildcard_answer_response_check(
                         pkt, covered.owner, trim_labels - 1)]

\* The state of the loops of kr_rrset_validate_with_key is ret and the record
\* of the signatures handed to kr_check_signature.
RECURSIVE try_sigs(_, _, _, _)
\* The inner loop, over the signatures of the set at position i, from j on.
try_sigs(c, i, j, st) ==
    LET rrsig == c.sec[i]
    IN  IF j > Len(rrsig.rrs) THEN st
        ELSE
        LET v == validate_rrsig_rr(c.covered, rrsig, j, c.keys, c.key_pos, c.key,
                                   c.zone_name, c.timestamp)
            val_flgs == v.flags
            wild == val_flgs = FLG_WILDCARD_EXPANSION
            trim_labels == IF wild
                           THEN wildcard_radix_len_diff(c.covered.owner, rrsig, j)
                           ELSE 0
        IN  IF v.ret # 0 THEN try_sigs(c, i, j + 1, st)
            ELSE IF wild /\ trim_labels < 0 THEN st
            ELSE
            LET cs == kr_check_signature(rrsig, j, c.key, c.covered, trim_labels)
                ev == [set |-> i, sig |-> j, flags |-> val_flgs,
                       trim |-> trim_labels, check |-> cs,
                       wc |-> "none", wc_arg |-> 0, wc_ret |-> 0]
            IN  IF cs # 0
                THEN try_sigs(c, i, j + 1, [st EXCEPT !.log = Append(st.log, ev)])
                ELSE IF wild
                THEN LET w == wildcard_answer_check(c.pkt, c.covered, c.has_nsec3,
                                                    trim_labels)
                         ev2 == [ev EXCEPT !.wc = w.wc, !.wc_arg = w.wc_arg,
                                           !.wc_ret = w.wc_ret]
                     IN  IF w.wc_ret # 0
                         THEN try_sigs(c, i, j + 1,
                                       [ret |-> w.wc_ret,
                                        log |-> Append(st.log, ev2)])
                         ELSE [ret |-> kr_ok, log |-> Append(st.log, ev2)]
                ELSE [ret |-> kr_ok, log |-> Append(st.log, ev)]

\* The outer loop, over the RR sets of the section, from i on.
RECURSIVE try_sets(_, _, _)
try_sets(c, i, st) ==
    IF i > Len(c.sec) THEN st
    ELSE IF c.sec[i].type # "RRSIG" THEN try_sets(c, i + 1, st)
    ELSE LET st2 == try_sigs(c, i, 1, st)
         IN  IF st2.ret = kr_ok THEN st2 ELSE try_sets(c, i + 1, st2)

\* kr_rrset_validate_with_key(pkt, section_id, covered, keys, key_pos, key,
\* zone_name, timestamp, has_nsec3); sec is the section section_id of pkt, and
\* key is NullKey or a parsed key.  libs: the key positions at which the
\* library calls of kr_dnssec_key_from_rdata fail.
kr_rrset_validate_with_key(pkt, sec, covered, keys, key_pos, key, zone_name, timestamp, has_nsec3, libs) ==
    LET made == IF key.null
                THEN kr_dnssec_key_from_rdata(KeyOut, mk_name(keys.owner),
                                              keys.rrs[key_pos],
                                              lib_at(libs, key_pos))
                ELSE [ret |-> kr_ok, key |-> key]
    IN  IF made.ret # 0 THEN [ret |-> made.ret, log |-> << >>]
        ELSE try_sets([pkt |-> pkt, sec |-> sec, covered |-> covered,
                       keys |-> keys, key_pos |-> key_pos, key |-> made.key,
                       zone_name |-> zone_name, timestamp |-> timestamp,
                       has_nsec3 |-> has_nsec3],
                      1, [ret |-> kr_error(ENOENT), log |-> << >>])

\* The loop of kr_rrset_validate over the keys, from position i on; the
\* result names the key the validation succeeded with.
RECURSIVE validate_keys(_, _, _, _, _, _, _, _, _)
validate_keys(pkt, sec, covered, keys, zone_name, timestamp, has_nsec3, libs, i) ==
    IF i > Len(keys.rrs)
    THEN [ret |-> kr_error(ENOENT), log |-> << >>, key_pos |-> 0]
    ELSE LET r == kr_rrset_validate_with_key(pkt, sec, covered, keys, i, NullKey,
                                             zone_name, timestamp, has_nsec3, libs)
         IN  IF r.ret = 0
             THEN [ret |-> r.ret, log |-> r.log, key_pos |-> i]
             ELSE validate_keys(pkt, sec, covered, keys, zone_name, timestamp,
                                has_nsec3, libs, i + 1)

\* kr_rrset_validate(pkt, section_id, covered, keys, zone_name, timestamp,
\* has_nsec3)
kr_rrset_validate(pkt, sec, covered, keys, zone_name, timestamp, has_nsec3, libs) ==
    IF pkt.null \/ covered.null \/ keys.null THEN
        [ret |-> kr_error(EINVAL), log |-> << >>, key_pos |-> 0]
    ELSE
    validate_keys(pkt, sec, covered, keys, zone_name, timestamp, has_nsec3, libs, 1)

\* The flags word of a DNSKEY rdata, wire_read_u16(dnskey_rdata), is
\* rdata.flags.
\* kr_dnssec_key_zsk that tests the SEP bit (0x0001) instead of the zone-key
\* bit.
kr_dnssec_key_zsk_sepbit(dnskey_rdata) == dnskey_rdata.flags % 2 = 1

kr_dnssec_key_zsk(dnskey_rdata) == (dnskey_rdata.flags \div 256) % 2 = 1

\* Whether the DNSKEY is revoked.
kr_dnssec_key_revoked(dnskey_rdata) == (dnskey_rdata.flags \div 128) % 2 = 1

\* kr_authenticate_referral: the key matches a DS (or a configured trust
\* anchor) of ta by digest.
kr_authenticate_referral(ta, key) ==
    IF key.pub \in ta.ds THEN kr_ok ELSE kr_error(ENOENT)

\* The loop of kr_dnskeys_trusted over the keys, from position i on.  trace
\* records, for each key tried, the calls made with it.
RECURSIVE trusted_from(_, _, _, _, _, _, _, _, _, _)
trusted_from(pkt, sec, keys, ta, zone_name, timestamp, has_nsec3, libs, i, trace) ==
    IF i > Len(keys.rrs)
    THEN \* No useable key found
         [ret |-> kr_error(ENOENT), key_pos |-> 0, trace |-> trace]
    ELSE
    LET key_data == keys.rrs[i]
        step == [pos |-> i, parsed |-> FALSE, auth |-> FALSE, validated |-> FALSE]
        next(st) == trusted_from(pkt, sec, keys, ta, zone_name, timestamp,
                                 has_nsec3, libs, i + 1, Append(trace, st))
    IN  IF ~kr_dnssec_key_zsk(key_data) \/ kr_dnssec_key_revoked(key_data)
        THEN next(step)
        ELSE
        LET made == kr_dnssec_key_from_rdata(KeyOut, mk_name(keys.owner), key_data,
                                             lib_at(libs, i))
        IN  IF made.ret # 0 THEN next([step EXCEPT !.parsed = TRUE])
            ELSE IF kr_authenticate_referral(ta, made.key) # 0
            THEN next([step EXCEPT !.parsed = TRUE, !.auth = TRUE])
            ELSE IF kr_rrset_validate_with_key(pkt, sec, keys, keys, i, made.key,
                        zone_name, timestamp, has_nsec3, libs).ret # 0
            THEN next([step EXCEPT !.parsed = TRUE, !.auth = TRUE,
                                   !.validated = TRUE])
            ELSE [ret |-> kr_ok, key_pos |-> i,
                  trace |-> Append(trace, [step EXCEPT !.parsed = TRUE,
                                              !.auth = TRUE, !.validated = TRUE])]

\* kr_dnskeys_trusted(pkt, section_id, keys, ta, zone_name, timestamp,
\* has_nsec3)
kr_dnskeys_trusted(pkt, sec, keys, ta, zone_name, timestamp, has_nsec3, libs) ==
    IF pkt.null \/ keys.null \/ ta.null THEN
        [ret |-> kr_error(EINVAL), key_pos |-> 0, trace |-> << >>]
    ELSE
    trusted_from(pkt, sec, keys, ta, zone_name, timestamp, has_nsec3, libs, 1, << >>)

\* ------------------------------------------------ the validation calls

ZoneName == <<"example">>
OtherName == <<"other">>

\* Covered owners: a plain name, a wildcard name of the zone, and a wildcard
\* name one label deeper.
PlainOwner == <<"w", "example">>
WildOwners == {PlainOwner, <<"*", "example">>, <<"*", "a", "example">>}

\* A signature that passes every check for the plain owner at time 2 with the
\* key of tag 1: it was made from time 2 to time 2, so both ends are reached.
GoodSig ==
    [type_covered |-> "A", labels |-> 2, expiration |-> 2, inception |-> 2,
     signer_name |-> ZoneName, algorithm |-> 8, key_tag |-> 1,
     intact |-> TRUE, made_by |-> 1]

\* The signatures that differ from it in one field, and the good signature of
\* the key of tag 2.
SigVariants ==
    { GoodSig,
      [GoodSig EXCEPT !.type_covered = "NS"],
      [GoodSig EXCEPT !.labels = 3],
      [GoodSig EXCEPT !.labels = 1],
      [GoodSig EXCEPT !.expiration = 1],
      [GoodSig EXCEPT !.inception = 3],
      [GoodSig EXCEPT !.signer_name = OtherName],
      [GoodSig EXCEPT !.algorithm = 13],
      [GoodSig EXCEPT !.key_tag = 2],
      [GoodSig EXCEPT !.intact = FALSE],
      [GoodSig EXCEPT !.made_by = 2],
      [GoodSig EXCEPT !.key_tag = 2, !.made_by = 2] }

\* The signatures that differ in the labels field and in being intact.
WildSigs ==
    { [GoodSig EXCEPT !.labels = l, !.intact = b] : l \in 1..3, b \in BOOLEAN }

rrsig_set(owner, sigs) ==
    [type |-> "RRSIG", rclass |-> "IN", owner |-> owner, rrs |-> sigs]

\* The RR sets of a section: a set with one signature, a set with two, and
\* the sets that are not signatures of the covered RR set (another type,
\* class or owner).
SetsOf(owner, sigs, pairs) ==
    { rrsig_set(owner, <<g>>) : g \in sigs }
    \cup { rrsig_set(owner, <<pr[1], pr[2]>>) : pr \in pairs }
    \cup { [rrsig_set(owner, <<GoodSig>>) EXCEPT !.type = "A"],
           [rrsig_set(owner, <<GoodSig>>) EXCEPT !.rclass = "CH"],
           [rrsig_set(owner, <<GoodSig>>) EXCEPT !.owner = OtherName] }

\* The sections of at most n RR sets from S.
RECURSIVE SeqsUpTo(_, _)
SeqsUpTo(S, n) ==
    IF n = 0 THEN { << >> }
    ELSE LET shorter == SeqsUpTo(S, n - 1)
         IN  shorter \cup { Append(q, x) : q \in shorter, x \in S }

\* DNSKEY rdata: the zone key of tag 1, the zone key of tag 2, a rdata that
\* dnssec_key_set_rdata refuses, and a rdata of length 0.
Key1 == [null |-> FALSE, rdlen |-> 8, flags |-> 256, alg |-> 8, tag |-> 1, pub |-> 1, wellformed |-> TRUE]
Key2 == [null |-> FALSE, rdlen |-> 8, flags |-> 257, alg |-> 8, tag |-> 2, pub |-> 2, wellformed |-> TRUE]
KeyBad == [Key1 EXCEPT !.wellformed = FALSE]
KeyEmpty == [Key1 EXCEPT !.rdlen = 0, !.wellformed = FALSE]

\* The flags word of a rdata of length 0 is read from the two bytes behind
\* it, which the rdata does not determine: they may hold any value, with or
\* without the zone-key bit (0x0100), the revoke bit (0x0080) and the SEP bit.
EmptyKeys == { [KeyEmpty EXCEPT !.flags = f] : f \in {0, 128, 256, 257, 384} }

\* No library call fails.
NoLibFails == [key_new_fails |-> {}, set_dname_fails |-> {}]

dnskey_set(owner, rdatas) ==
    [null |-> FALSE, type |-> "DNSKEY", rclass |-> "IN", owner |-> owner,
     rrs |-> rdatas]

ValKeySets ==
    { dnskey_set(ZoneName, <<Key1>>),
      dnskey_set(ZoneName, <<Key2, Key1>>),
      dnskey_set(ZoneName, <<KeyBad, Key2>>),
      dnskey_set(ZoneName, <<KeyEmpty, Key1>>),
      dnskey_set(OtherName, <<Key1>>) }

mk_pkt(nsec_ret, nsec3_ok) ==
    [null |-> FALSE, nsec_ret |-> nsec_ret, nsec3_ok |-> nsec3_ok]

\* The covered RR set of type A, and a set of DS records (or trust anchors).
covered_set(owner) == [null |-> FALSE, owner |-> owner, rclass |-> "IN", type |-> "A"]

ds_set(pubs) == [null |-> FALSE, ds |-> pubs]

mk_case(sec, covered, keys, pkt, has_nsec3, ta) ==
    [kind |-> "val", sec |-> sec, covered |-> covered, keys |-> keys,
     pkt |-> pkt, zone_name |-> ZoneName, timestamp |-> 2,
     has_nsec3 |-> has_nsec3, ta |-> ta, libs |-> NoLibFails]

\* Calls that differ in everything the per-signature checks depend on.
ValCases ==
    { mk_case(sec, covered_set(PlainOwner), keys, mk_pkt(nr, {}), FALSE,
              ds_set({})) :
        sec \in SeqsUpTo(SetsOf(PlainOwner, SigVariants,
                                { <<[GoodSig EXCEPT !.expiration = 1], GoodSig>>,
                                  <<GoodSig, [GoodSig EXCEPT !.expiration = 1]>> }),
                         MaxSets),
        keys \in ValKeySets,
        nr \in {kr_ok, kr_error(EINVAL)} }

\* Calls that differ in everything the wildcard handling depends on.
WildCasesOf(o) ==
    { mk_case(sec, covered_set(o), dnskey_set(ZoneName, <<Key1>>),
              mk_pkt(nr, n3), h, ds_set({})) :
        sec \in SeqsUpTo({ rrsig_set(o, <<g>>) : g \in WildSigs }, MaxSets)
                \cup { <<rrsig_set(o, <<g1, g2>>)>> :
                        g1 \in WildSigs, g2 \in WildSigs },
        nr \in {kr_ok, kr_error(EINVAL)},
        n3 \in SUBSET {0, 1},
        h \in BOOLEAN }

WildCases == UNION { WildCasesOf(o) : o \in WildOwners }

\* A call that succeeds, and the calls that differ from it in a NULL argument.
GoodCase ==
    mk_case(<<rrsig_set(PlainOwner, <<GoodSig>>)>>, covered_set(PlainOwner),
            dnskey_set(ZoneName, <<Key1>>), mk_pkt(kr_ok, {}), FALSE, ds_set({}))

NullCases ==
    { [GoodCase EXCEPT !.pkt = NULL],
      [GoodCase EXCEPT !.covered = NULL],
      [GoodCase EXCEPT !.keys = NULL] }

\* The calls that differ from a call that succeeds in a library call of
\* kr_dnssec_key_from_rdata failing for the first or the second key.
LibFails ==
    { [key_new_fails |-> {1}, set_dname_fails |-> {}],
      [key_new_fails |-> {}, set_dname_fails |-> {1}],
      [key_new_fails |-> {2}, set_dname_fails |-> {}] }

LibCases ==
    { [GoodCase EXCEPT !.keys = dnskey_set(ZoneName, ks), !.libs = l] :
        ks \in { <<Key1>>, <<Key1, Key1>>, <<Key2, Key1>> }, l \in LibFails }

InitVal ==
    /\ array = << >> /\ ndebug = TRUE /\ last = NoCall
    /\ vin \in ValCases \cup WildCases \cup NullCases \cup LibCases
    /\ vout = [op |-> "none"]
    /\ IdleCtx /\ IdleRnd

\* A call of kr_rrset_validate.
Validate ==
    /\ vin.kind = "val" /\ vout.op = "none"
    /\ LET r == kr_rrset_validate(vin.pkt, vin.sec, vin.covered, vin.keys,
                                  vin.zone_name, vin.timestamp, vin.has_nsec3,
                                  vin.libs)
       IN  vout' = [op |-> "validate", ret |-> r.ret, log |-> r.log,
                    key_pos |-> r.key_pos]
    /\ UNCHANGED <<rrvars, vin, ctxvars, rndvars>>

\* A call of kr_rrset_validate_with_key, with no key or with the key parsed
\* from the rdata at key_pos.  The function dereferences pkt, covered and
\* keys unchecked, so its callers pass objects.
ValidateWithKey ==
    /\ vin.kind = "val" /\ vout.op = "none"
    /\ ~vin.pkt.null /\ ~vin.covered.null /\ ~vin.keys.null
    /\ \E key_pos \in 1..Len(vin.keys.rrs), given \in BOOLEAN :
          LET made == kr_dnssec_key_from_rdata(KeyOut, mk_name(vin.keys.owner),
                                               vin.keys.rrs[key_pos], LibOk)
              r == kr_rrset_validate_with_key(
                       vin.pkt, vin.sec, vin.covered, vin.keys, key_pos,
                       IF given THEN made.key ELSE NullKey,
                       vin.zone_name, vin.timestamp, vin.has_nsec3, vin.libs)
          IN  /\ given => made.ret = 0
              /\ vout' = [op |-> "validate_with_key", ret |-> r.ret,
                          log |-> r.log, key_pos |-> key_pos]
    /\ UNCHANGED <<rrvars, vin, ctxvars, rndvars>>

\* Calls of kr_dnskeys_trusted: the DNSKEY sets of at most MaxKeys keys, each
\* a zone key, a zone key with the SEP bit, a key without the zone-key bit, a
\* revoked key or a malformed one; the trust anchor matches any of the keys;
\* the section holds signatures over the DNSKEY set.
KeyPool ==
    { Key1, Key2, KeyBad, [Key1 EXCEPT !.flags = 1], [Key1 EXCEPT !.flags = 384] }
    \cup EmptyKeys

DnskeySig == [GoodSig EXCEPT !.type_covered = "DNSKEY", !.labels = 1]

KeyCases ==
    { mk_case(sec, dnskey_set(ZoneName, ks), dnskey_set(ZoneName, ks),
              mk_pkt(kr_ok, {}), FALSE, ta) :
        sec \in SeqsUpTo({ rrsig_set(ZoneName, <<g>>) :
                             g \in { DnskeySig,
                                     [DnskeySig EXCEPT !.intact = FALSE],
                                     [DnskeySig EXCEPT !.key_tag = 2,
                                                       !.made_by = 2] } },
                         MaxSets),
        ks \in SeqsUpTo(KeyPool, MaxKeys) \ { << >> },
        ta \in { ds_set(pubs) : pubs \in SUBSET {1, 2} } }

\* A call that succeeds, and the calls that differ from it in a NULL argument.
GoodKeyCase ==
    mk_case(<<rrsig_set(ZoneName, <<DnskeySig>>)>>,
            dnskey_set(ZoneName, <<Key1>>), dnskey_set(ZoneName, <<Key1>>),
            mk_pkt(kr_ok, {}), FALSE, ds_set({1}))

NullKeyCases ==
    { [GoodKeyCase EXCEPT !.pkt = NULL],
      [GoodKeyCase EXCEPT !.keys = NULL, !.covered = NULL],
      [GoodKeyCase EXCEPT !.ta = NULL] }

LibKeyCases ==
    { [GoodKeyCase EXCEPT !.keys = dnskey_set(ZoneName, ks),
                          !.covered = dnskey_set(ZoneName, ks), !.libs = l] :
        ks \in { <<Key1>>, <<Key1, Key1>> }, l \in LibFails }

InitKeys ==
    /\ array = << >> /\ ndebug = TRUE /\ last = NoCall
    /\ vin \in KeyCases \cup NullKeyCases \cup LibKeyCases
    /\ vout = [op |-> "none"]
    /\ IdleCtx /\ IdleRnd

\* A call of kr_dnskeys_trusted.
DnskeysTrusted ==
    /\ vin.kind = "val" /\ vout.op = "none"
    /\ LET r == kr_dnskeys_trusted(vin.pkt, vin.sec, vin.keys, vin.ta,
                                   vin.zone_name, vin.timestamp, vin.has_nsec3,
                                   vin.libs)
       IN  vout' = [op |-> "dnskeys_trusted", ret |-> r.ret,
                    key_pos |-> r.key_pos, trace |-> r.trace]
    /\ UNCHANGED <<rrvars, vin, ctxvars, rndvars>>

NextVal == Validate \/ ValidateWithKey

SpecVal == InitVal /\ [][NextVal]_vars

NextKeys == DnskeysTrusted

SpecKeys == InitKeys /\ [][NextKeys]_vars

\* ------------------------------------------------------- lib/context.c

\* knot_pkt_free(&p) of a pointer p of value ans: NULL is left alone; a live
\* packet is freed and the pointer set to NULL; a dangling pointer is a double
\* free, which the allocator aborts on or lets pass (dfree_aborts).
knot_pkt_free(ans, ps, dfree_aborts) ==
    IF ans = 0 THEN [ans |-> 0, pkts |-> ps, crashed |-> FALSE]
    ELSE IF ps[ans] = "live"
    THEN [ans |-> 0, pkts |-> [ps EXCEPT ![ans] = "freed"], crashed |-> FALSE]
    ELSE IF dfree_aborts THEN [ans |-> ans, pkts |-> ps, crashed |-> TRUE]
    ELSE [ans |-> 0, pkts |-> ps, crashed |-> FALSE]

\* kr_cache_txn_commit(txn): the transaction is committed once more; a NULL
\* txn names no transaction.
kr_cache_txn_commit(txn, ts) ==
    IF txn = 0 THEN ts
    ELSE [ts EXCEPT ![txn].commits = ts[txn].commits + 1]

\* kr_result_init(ctx, result).  alloc_ok, has_qry and txn_ok tell whether
\* knot_pkt_new, kr_rplan_next and kr_cache_txn_begin return an object.
kr_result_init(ps, ts, alloc_ok, has_qry, txn_ok) ==
    LET zeroed == [init |-> TRUE, ans |-> 0, txn |-> 0]
        ans == Len(ps) + 1
        allocated == Append(ps, "live")
        freed == Append(ps, "freed")
    IN  IF ~alloc_ok
        THEN [ret |-> -1, result |-> zeroed, pkts |-> ps, txns |-> ts]
        ELSE IF ~has_qry
        THEN [ret |-> -1, result |-> zeroed, pkts |-> freed, txns |-> ts]
        ELSE IF ~txn_ok
        THEN \* knot_pkt_free(&ans) clears the local only
             [ret |-> -1, result |-> [zeroed EXCEPT !.ans = ans],
              pkts |-> freed, txns |-> ts]
        ELSE [ret |-> 0,
              result |-> [zeroed EXCEPT !.ans = ans, !.txn = Len(ts) + 1],
              pkts |-> allocated,
              txns |-> Append(ts, [status |-> "running", commits |-> 0])]

\* kr_result_deinit(result)
kr_result_deinit(res, ps, ts, dfree_aborts) ==
    LET f == knot_pkt_free(res.ans, ps, dfree_aborts)
    IN  IF f.crashed
        THEN [ret |-> 0, result |-> res, pkts |-> ps, txns |-> ts,
              crashed |-> TRUE]
        ELSE [ret |-> 0, result |-> [res EXCEPT !.ans = f.ans],
              pkts |-> f.pkts, txns |-> kr_cache_txn_commit(res.txn, ts),
              crashed |-> FALSE]

\* The request the result belongs to is the one its transaction was begun
\* for; a result without a transaction has no running request.
RequestRunning ==
    /\ result.init /\ result.txn # 0
    /\ txns[result.txn].status = "running"

InitCtx ==
    /\ array = << >> /\ ndebug = TRUE /\ last = NoCall
    /\ IdleVal /\ IdleCtx /\ IdleRnd

\* A call of kr_result_init.
ResultInit ==
    /\ ~crashed
    /\ \E alloc_ok \in BOOLEAN, has_qry \in BOOLEAN, txn_ok \in BOOLEAN :
          /\ alloc_ok => Len(pkts) < MaxPkts
          /\ (alloc_ok /\ has_qry /\ txn_ok) => Len(txns) < MaxTxns
          /\ LET r == kr_result_init(pkts, txns, alloc_ok, has_qry, txn_ok)
             IN  /\ result' = r.result
                 /\ pkts' = r.pkts
                 /\ txns' = r.txns
                 /\ cret' = [op |-> "init", ret |-> r.ret]
    /\ UNCHANGED <<rrvars, valvars, crashed, rndvars>>

\* The resolution of the request ends: it succeeds, fails or is cancelled at
\* its deadline.
RequestEnds ==
    /\ ~crashed /\ RequestRunning
    /\ \E outcome \in {"ok", "failed", "cancelled"} :
          txns' = [txns EXCEPT ![result.txn].status = outcome]
    /\ UNCHANGED <<rrvars, valvars, result, pkts, cret, crashed, rndvars>>

\* A call of kr_result_deinit, on a result kr_result_init has been called on
\* and whose request is over.
ResultDeinit ==
    /\ ~crashed /\ result.init /\ ~RequestRunning
    /\ result.txn # 0 => txns[result.txn].commits < MaxCommits
    /\ \E dfree_aborts \in BOOLEAN :
          LET r == kr_result_deinit(result, pkts, txns, dfree_aborts)
          IN  /\ result' = r.result
              /\ pkts' = r.pkts
              /\ txns' = r.txns
              /\ crashed' = r.crashed
              /\ cret' = [op |-> "deinit", ret |-> r.ret]
    /\ UNCHANGED <<rrvars, valvars, rndvars>>

NextCtx == ResultInit \/ RequestEnds \/ ResultDeinit

SpecCtx == InitCtx /\ [][NextCtx]_vars

\* ------------------------------------------------- knot_dname_lf2wire

\* The scan for label_start: the index (0-based) the inner while loop stops
\* at, going down from i.
RECURSIVE lf_scan(_, _)
lf_scan(bytes, i) ==
    IF i >= 0 /\ bytes[i + 1] # 0 THEN lf_scan(bytes, i - 1) ELSE i

\* The conversion loop, one label at a time, from label_end (0-based index of
\* the zero byte after the current label); out is what was written to dst.
RECURSIVE lf2wire_from(_, _, _)
lf2wire_from(bytes, label_end, out) ==
    IF label_end < 0
    THEN [ret |-> Len(out) + 1, wire |-> out \o <<0>>, asserted |-> FALSE]
    ELSE LET i == lf_scan(bytes, label_end - 1)
             label_start == i + 1
             label_len == label_end - label_start
         IN  IF label_len > 63 \/ label_len <= 0
             THEN [ret |-> kr_error(EILSEQ), wire |-> out, asserted |-> FALSE]
             ELSE lf2wire_from(bytes, label_start - 1,
                               out \o <<label_len>>
                                   \o SubSeq(bytes, label_start + 1, label_end))

\* knot_dname_lf2wire(dst, len, lf): the return value and the bytes written
\* to dst.  len is a uint8_t, so ++len wraps around at 256.
knot_dname_lf2wire(dst, len, lf) ==
    IF dst.null \/ (len # 0 /\ lf.null)
    THEN [ret |-> kr_error(EINVAL), wire |-> << >>, asserted |-> TRUE]
    ELSE IF len = 0
    THEN [ret |-> 1, wire |-> <<0>>, asserted |-> FALSE]
    ELSE LET len2 == IF lf.bytes[len] # 0 THEN (len + 1) % 256 ELSE len
         IN  lf2wire_from(lf.bytes, len2 - 1, << >>)

\* A name is a sequence of labels in wire order, a label a sequence of bytes.
\* The label of n bytes at position k is filled with the letter k; a label
\* may hold any byte, and the z-th byte of this one is a zero byte (none of
\* them when z is 0).
mk_label(k, n, z) == [x \in 1..n |-> IF x = z THEN 0 ELSE 96 + k]

\* The wire form of a name: each label after its length byte, then the root.
RECURSIVE wire_of(_)
wire_of(labels) ==
    IF labels = << >> THEN <<0>>
    ELSE <<Len(labels[1])>> \o labels[1] \o wire_of(Tail(labels))

\* knot_dname_lf: the LF form of a wire name, read label by label from pos
\* (1-based): the labels in reverse order, each followed by a zero byte.
RECURSIVE knot_dname_lf(_, _)
knot_dname_lf(wire, pos) ==
    IF wire[pos] = 0 THEN << >>
    ELSE knot_dname_lf(wire, pos + wire[pos] + 1)
         \o SubSeq(wire, pos + 1, pos + wire[pos]) \o <<0>>

\* The bytes of labels in reverse order, zero-separated, that need not be
\* the LF form of a name: a label may be empty or too long.
RECURSIVE lf_join(_)
lf_join(labels) ==
    IF labels = << >> THEN << >>
    ELSE lf_join(Tail(labels)) \o labels[1] \o <<0>>

\* The label lengths the inputs are made of, around the limits 0, 63 and 255.
LabelLens == {0, 1, 2, 61, 62, 63, 64, 255}

\* The labels the inputs are made of, as length and position of the zero
\* byte: labels without a zero byte and, with zeros, also the labels 00,
\* 00 x, x 00 and x 00 x.
LabelShapes(zeros) ==
    { <<l, 0>> : l \in LabelLens }
    \cup (IF zeros THEN { <<1, 1>>, <<2, 1>>, <<2, 2>>, <<3, 2>> } ELSE {})

\* The names of at most n of these labels.
RECURSIVE NamesUpTo(_, _)
NamesUpTo(n, zeros) ==
    IF n = 0 THEN { << >> }
    ELSE LET shorter == NamesUpTo(n - 1, zeros)
         IN  shorter \cup { Append(q, mk_label(Len(q) + 1, sh[1], sh[2])) :
                              q \in { s \in shorter : Len(s) = n - 1 },
                              sh \in LabelShapes(zeros) }

\* The names of the calls: long names of labels without a zero byte and short
\* names of labels of every shape.
LfNames == NamesUpTo(MaxLabels, FALSE) \cup NamesUpTo(MaxZeroLabels, TRUE)

mk_buf(bytes) == [null |-> FALSE, bytes |-> bytes]

\* A call of knot_dname_lf2wire on the joined labels ls, with or without the
\* final zero byte; wire is the wire form the labels were taken from.
mk_lf_case(ls, final_zero) ==
    LET joined == lf_join(ls)
        bytes == IF final_zero \/ joined = << >> THEN joined
                 ELSE SubSeq(joined, 1, Len(joined) - 1)
    IN  [kind |-> "lf", wire |-> wire_of(ls), dst |-> mk_buf(<< >>),
         len |-> Len(bytes), lf |-> mk_buf(bytes)]

\* Calls of knot_dname_lf2wire, as far as the length fits the uint8_t
\* argument, and the calls with a NULL argument.
LfCases ==
    { c \in { mk_lf_case(ls, fz) : ls \in LfNames, fz \in BOOLEAN } :
        c.len <= 255 }
    \cup { [mk_lf_case(<<mk_label(1, 1, 0)>>, TRUE) EXCEPT !.dst = NULL],
           [mk_lf_case(<<mk_label(1, 1, 0)>>, TRUE) EXCEPT !.lf = NULL],
           [mk_lf_case(<< >>, TRUE) EXCEPT !.lf = NULL] }

InitLf ==
    /\ array = << >> /\ ndebug \in BOOLEAN /\ last = NoCall
    /\ vin \in LfCases
    /\ vout = [op |-> "none"]
    /\ IdleCtx /\ IdleRnd

\* A call of knot_dname_lf2wire; a failed assert() aborts a build without
\* NDEBUG.
Lf2Wire ==
    /\ vin.kind = "lf" /\ vout.op = "none"
    /\ LET r == knot_dname_lf2wire(vin.dst, vin.len, vin.lf)
       IN  vout' = [op |-> "lf2wire", ret |-> r.ret, wire |-> r.wire,
                    aborted |-> r.asserted /\ ~ndebug]
    /\ UNCHANGED <<rrvars, vin, ctxvars, rndvars>>

NextLf == Lf2Wire

SpecLf == InitLf /\ [][NextLf]_vars

\* ------------------------------------------------- kr_inaddr_set_port

\* htons(port) as it lies in memory: the high byte first.
htons(port) == <<port \div 256, port % 256>>

\* kr_inaddr_set_port(addr, port): the address afterwards and the fields
\* written, in order.  The case AF_INET has no break and runs into the case
\* AF_INET6.  sin_port and sin6_port are the same two bytes of the address
\* (offset 2 of both structures), so a store to one shows in the other.
kr_inaddr_set_port(addr, port) ==
    IF addr.null THEN [addr |-> addr, writes |-> << >>]
    ELSE IF addr.sa_family = "AF_INET"
    THEN [addr |-> [addr EXCEPT !.sin_port = htons(port),
                                !.sin6_port = htons(port)],
          writes |-> <<"sin_port", "sin6_port">>]
    ELSE IF addr.sa_family = "AF_INET6"
    THEN [addr |-> [addr EXCEPT !.sin_port = htons(port),
                                !.sin6_port = htons(port)],
          writes |-> <<"sin6_port">>]
    ELSE [addr |-> addr, writes |-> << >>]

\* A socket address seen through both struct sockaddr_in and struct
\* sockaddr_in6, with the same port in both views.
mk_sockaddr(family, port) ==
    [null |-> FALSE, sa_family |-> family, sin_port |-> htons(port),
     sin6_port |-> htons(port)]

Families == {"AF_INET", "AF_INET6", "AF_UNSPEC", "AF_UNIX"}

Ports == {0, 1, 53, 255, 256, 853, 65535}

PortCases ==
    { [kind |-> "port", addr |-> mk_sockaddr(f, old), port |-> p] :
        f \in Families, old \in {0, 53, 5353}, p \in Ports }
    \cup { [kind |-> "port", addr |-> NULL, port |-> p] : p \in Ports }

InitPort ==
    /\ array = << >> /\ ndebug = TRUE /\ last = NoCall
    /\ vin \in PortCases
    /\ vout = [op |-> "none"]
    /\ IdleCtx /\ IdleRnd

\* A call of kr_inaddr_set_port.
InaddrSetPort ==
    /\ vin.kind = "port" /\ vout.op = "none"
    /\ LET r == kr_inaddr_set_port(vin.addr, vin.port)
       IN  vout' = [op |-> "set_port", addr |-> r.addr, writes |-> r.writes]
    /\ UNCHANGED <<rrvars, vin, ctxvars, rndvars>>

NextPort == InaddrSetPort

SpecPort == InitPort /\ [][NextPort]_vars

\* ------------------------------------------------------- C strings

\* A C string is the sequence of its characters; the terminating NUL is the
\* character after the last one.  Positions are 1-based and 0 stands for the
\* NULL pointer strchr returns.
NUL == "\\0"

char_at(s, i) == IF i >= 1 /\ i <= Len(s) THEN s[i] ELSE NUL

\* strchr(s, c): the position of the first c in s from position from on.
RECURSIVE strchr_from(_, _, _)
strchr_from(s, c, from) ==
    IF from > Len(s) THEN 0
    ELSE IF s[from] = c THEN from
    ELSE strchr_from(s, c, from + 1)

strchr(s, c) == strchr_from(s, c, 1)

DigitChars == {"0", "1", "2", "3", "4", "5", "6", "7", "8", "9"}

digit_val ==
    "0" :> 0 @@ "1" :> 1 @@ "2" :> 2 @@ "3" :> 3 @@ "4" :> 4 @@
    "5" :> 5 @@ "6" :> 6 @@ "7" :> 7 @@ "8" :> 8 @@ "9" :> 9

\* The characters isspace() holds for.
VT == "\\v"

SpaceChars == {" ", "\t", "\n", VT, "\f", "\r"}

RECURSIVE skip_space(_, _)
skip_space(s, i) ==
    IF char_at(s, i) \in SpaceChars THEN skip_space(s, i + 1) ELSE i

\* The digits of s from i on: the value read and the position after them
\* (of a short text: a field of an IPv4 address).
RECURSIVE read_digits(_, _, _)
read_digits(s, i, acc) ==
    IF char_at(s, i) \in DigitChars
    THEN read_digits(s, i + 1, acc * 10 + digit_val[s[i]])
    ELSE [val |-> acc, end |-> i]

\* A long has 64 bits.  It is kept as its sign and its magnitude, and the
\* magnitude as four digits of 16 bits, the lowest first.

\* mag * 10 + d.  The highest digit is not reduced: it is above 32767 when
\* the product does not fit a positive long.
mag_times10(mag, d) ==
    LET c1 == mag[1] * 10 + d
        c2 == mag[2] * 10 + (c1 \div 65536)
        c3 == mag[3] * 10 + (c2 \div 65536)
    IN  <<c1 % 65536, c2 % 65536, c3 % 65536, mag[4] * 10 + (c3 \div 65536)>>

\* The magnitude is above LONG_MAX, or above -LONG_MIN for a negative number.
mag_over(mag, neg) ==
    \/ mag[4] > 32768
    \/ mag[4] = 32768 /\ (~neg \/ mag[1] # 0 \/ mag[2] # 0 \/ mag[3] # 0)

\* The digits of s from i on, as strtol reads them: the magnitude read and
\* the position after the digits.  A number out of the range of long is
\* LONG_MAX or LONG_MIN, and its remaining digits are still consumed.
RECURSIVE read_long(_, _, _, _)
read_long(s, i, mag, neg) ==
    IF char_at(s, i) \notin DigitChars THEN [mag |-> mag, end |-> i]
    ELSE IF mag_over(mag_times10(mag, digit_val[s[i]]), neg)
    THEN read_long(s, i + 1,
                   IF neg THEN <<0, 0, 0, 32768>> ELSE <<65535, 65535, 65535, 32767>>,
                   neg)
    ELSE read_long(s, i + 1, mag_times10(mag, digit_val[s[i]]), neg)

\* strtol(s + start - 1, &end, 10): white space is skipped, a sign is
\* taken, then the digits; without a digit nothing is converted and end is
\* the start.  The value is a long.
strtol(s, start) ==
    LET i == skip_space(s, start)
        neg == char_at(s, i) = "-"
        j == IF char_at(s, i) \in {"+", "-"} THEN i + 1 ELSE i
        d == read_long(s, j, <<0, 0, 0, 0>>, neg)
    IN  IF d.end = j THEN [val |-> [neg |-> FALSE, mag |-> <<0, 0, 0, 0>>], end |-> start]
        ELSE [val |-> [neg |-> neg /\ d.mag # <<0, 0, 0, 0>>, mag |-> d.mag],
              end |-> d.end]

\* The value of a long v of the range of int, but for INT_MIN.
long_val(v) ==
    IF v.neg THEN -(v.mag[2] * 65536 + v.mag[1]) ELSE v.mag[2] * 65536 + v.mag[1]

\* lo <= v /\ v <= hi for a long v and numbers lo and hi of the range of int.
long_in(v, lo, hi) ==
    /\ v.mag[4] = 0 /\ v.mag[3] = 0 /\ v.mag[2] < 32768
    /\ long_val(v) >= lo /\ long_val(v) <= hi

\* (int)v for a long v: the low 32 bits of its two's complement, as a signed
\* number.  low is that of the magnitude.
int_of_long(v) ==
    LET low == IF v.mag[2] >= 32768
               THEN (v.mag[2] - 65536) * 65536 + v.mag[1]
               ELSE v.mag[2] * 65536 + v.mag[1]
    IN  IF ~v.neg \/ (v.mag[2] = 32768 /\ v.mag[1] = 0) THEN low ELSE -low

\* ---------------------------------------------------- kr_straddr_split

INET6_ADDRSTRLEN == 46
UINT16_MAX == 65535

\* kr_straddr_split(instr, ipaddr, port): the return value, the string in
\* ipaddr and *port afterwards.  The arguments are not NULL (asserted).
kr_straddr_split(instr, ipaddr, port) ==
    LET at == strchr(instr, "@")
        p_start == IF at = 0 THEN strchr(instr, "#") ELSE at
        p == strtol(instr, p_start + 1)
        addrlen == IF p_start # 0 THEN p_start - 1 ELSE Len(instr)
        failed == [ret |-> kr_error(EILSEQ), ipaddr |-> ipaddr, port |-> port]
    IN  IF p_start # 0 /\ char_at(instr, p_start + 1) = NUL THEN failed
        ELSE IF /\ p_start # 0
                \* *p_end != '\0' || p <= 0 || p > UINT16_MAX, on the long p
                /\ (char_at(instr, p.end) # NUL \/ ~long_in(p.val, 1, UINT16_MAX))
        THEN failed
        ELSE LET port2 == IF p_start # 0 THEN long_val(p.val) ELSE port
             IN  IF addrlen > INET6_ADDRSTRLEN
                 THEN [failed EXCEPT !.port = port2]
                 ELSE [ret |-> kr_ok, ipaddr |-> SubSeq(instr, 1, addrlen),
                       port |-> port2]

\* Address texts: an IPv4 and an IPv6 literal, the empty text, and texts of
\* INET6_ADDRSTRLEN characters and of one more.
AddrTexts ==
    { <<"1", ".", "2", ".", "3", ".", "4">>, <<":", ":", "1">>, << >>,
      [i \in 1..INET6_ADDRSTRLEN |-> "f"],
      [i \in 1..(INET6_ADDRSTRLEN + 1) |-> "f"] }

\* Port texts: in and out of the range, empty, signed, with white space in
\* front and with characters behind.
PortTexts ==
    { << >>, <<"0">>, <<"1">>, <<"5", "3">>, <<"0", "5", "3">>,
      <<"6", "5", "5", "3", "5">>, <<"6", "5", "5", "3", "6">>,
      <<"9", "9", "9", "9", "9", "9">>,
      <<"-", "5">>, <<"+", "5", "3">>, <<" ", "5", "3">>, <<"5", "3", " ">>,
      <<"5", "3", "x">>, <<"x">>, <<"-">>, <<"5", "#", "3">>, <<"5", "@", "3">>,
      <<"x", "@", "5", "3">>, <<"\f", "5", "3">>, <<VT, "7">>,
      \* 2^32 + 53, and a number above LONG_MAX
      <<"4", "2", "9", "4", "9", "6", "7", "3", "4", "9">>,
      [i \in 1..20 |-> "9"] }

SplitCases ==
    { [kind |-> "split", instr |-> a \o rest, port |-> old] :
        a \in AddrTexts,
        rest \in { << >> } \cup { <<s>> \o t : s \in {"@", "#"}, t \in PortTexts },
        old \in {0, 7} }

InitSplit ==
    /\ array = << >> /\ ndebug = TRUE /\ last = NoCall
    /\ vin \in SplitCases
    /\ vout = [op |-> "none"]
    /\ IdleCtx /\ IdleRnd

\* A call of kr_straddr_split; ipaddr holds some other string before.
StraddrSplit ==
    /\ vin.kind = "split" /\ vout.op = "none"
    /\ LET r == kr_straddr_split(vin.instr, <<"?">>, vin.port)
       IN  vout' = [op |-> "split", ret |-> r.ret, ipaddr |-> r.ipaddr,
                    port |-> r.port]
    /\ UNCHANGED <<rrvars, vin, ctxvars, rndvars>>

NextSplit == StraddrSplit

SpecSplit == InitSplit /\ [][NextSplit]_vars

\* --------------------------------------------------- kr_straddr_subnet

\* kr_straddr_family(addr): a text with a colon is an IPv6 address.
kr_straddr_family(addr) ==
    IF addr.null THEN kr_error(EINVAL)
    ELSE IF strchr(addr.bytes, ":") # 0 THEN "AF_INET6"
    ELSE "AF_INET"

\* The fields of a text between the separators c.
RECURSIVE split_at(_, _)
split_at(s, c) ==
    LET p == strchr(s, c)
    IN  IF p = 0 THEN <<s>>
        ELSE <<SubSeq(s, 1, p - 1)>> \o split_at(SubSeq(s, p + 1, Len(s)), c)

\* A field of a dotted quad: digits without a leading zero, at most 255.
v4_field_ok(f) ==
    /\ f # << >> /\ Len(f) <= 3
    /\ \A i \in 1..Len(f) : f[i] \in DigitChars
    /\ (Len(f) > 1 => f[1] # "0")
    /\ read_digits(f, 1, 0).val <= 255

\* The 4 bytes of a dotted quad, or << >> when the text is not one.
inet_pton4(src) ==
    LET fields == split_at(src, ".")
    IN  IF Len(fields) = 4 /\ \A i \in 1..4 : v4_field_ok(fields[i])
        THEN [i \in 1..4 |-> read_digits(fields[i], 1, 0).val]
        ELSE << >>

hex_val ==
    digit_val @@ "a" :> 10 @@ "b" :> 11 @@ "c" :> 12 @@ "d" :> 13 @@ "e" :> 14 @@
    "f" :> 15 @@ "A" :> 10 @@ "B" :> 11 @@ "C" :> 12 @@ "D" :> 13 @@ "E" :> 14 @@
    "F" :> 15

\* The value of a group of hexadecimal digits.
RECURSIVE read_hex(_)
read_hex(g) ==
    IF g = << >> THEN 0
    ELSE 16 * read_hex(SubSeq(g, 1, Len(g) - 1)) + hex_val[g[Len(g)]]

\* A group of an IPv6 text: 1 to 4 hexadecimal digits.
v6_group_ok(g) ==
    /\ Len(g) \in 1..4
    /\ \A i \in 1..Len(g) : g[i] \in DOMAIN hex_val

\* The bytes of the groups gs of an IPv6 text: 2 for each group of
\* hexadecimal digits; the last group may be a dotted quad, of 4 bytes.
\* <<-1>> stands for a group that is neither.
RECURSIVE v6_group_bytes(_)
v6_group_bytes(gs) ==
    IF gs = << >> THEN << >>
    ELSE IF v6_group_ok(gs[1])
    THEN <<read_hex(gs[1]) \div 256, read_hex(gs[1]) % 256>>
         \o v6_group_bytes(Tail(gs))
    ELSE IF Len(gs) = 1 /\ inet_pton4(gs[1]) # << >> THEN inet_pton4(gs[1])
    ELSE <<-1>>

\* The 16 bytes of the groups of an IPv6 text, or << >>: b1 are the bytes in
\* front of "::" and b2 those behind it; without "::" all bytes are in b1.
v6_fill(b1, b2, gapped) ==
    IF \E i \in 1..Len(b1) : b1[i] = -1 THEN << >>
    ELSE IF \E i \in 1..Len(b2) : b2[i] = -1 THEN << >>
    ELSE IF ~gapped THEN (IF Len(b1) = 16 THEN b1 ELSE << >>)
    ELSE IF Len(b1) + Len(b2) >= 16 THEN << >>
    ELSE b1 \o [i \in 1..(16 - Len(b1) - Len(b2)) |-> 0] \o b2

\* The 16 bytes of the fields of an IPv6 text with "::" at the field gap
\* (0: without "::"), or << >>.  A dotted quad is the last group of the text
\* only, so none stands in front of "::".
v6_parts(fields, gap) ==
    IF gap = 0 THEN v6_fill(v6_group_bytes(fields), << >>, FALSE)
    ELSE IF gap > 1 /\ ~v6_group_ok(fields[gap - 1]) THEN << >>
    ELSE v6_fill(v6_group_bytes(SubSeq(fields, 1, gap - 1)),
                 v6_group_bytes(SubSeq(fields, gap + 1, Len(fields))), TRUE)

\* The 16 bytes of an IPv6 text, or << >> when the text is not one: groups
\* between colons, "::" at most once for one or more groups of zeros.
inet_pton6(src) ==
    LET n == Len(src)
        lead2 == n >= 2 /\ src[1] = ":" /\ src[2] = ":"
        trail2 == n >= 2 /\ src[n - 1] = ":" /\ src[n] = ":"
        all == split_at(src, ":")
        cut1 == IF lead2 THEN Tail(all) ELSE all
        fields == IF trail2 /\ Len(cut1) > 1 THEN SubSeq(cut1, 1, Len(cut1) - 1)
                  ELSE cut1
        gaps == { i \in 1..Len(fields) : fields[i] = << >> }
    IN  IF n = 0 THEN << >>
        ELSE IF (src[1] = ":" /\ ~lead2) \/ (src[n] = ":" /\ ~trail2) THEN << >>
        ELSE IF Cardinality(gaps) > 1 THEN << >>
        ELSE v6_parts(fields, IF gaps = {} THEN 0 ELSE CHOOSE i \in gaps : TRUE)

\* inet_pton(family, src, dst): 1 and the address in dst for a valid text of
\* the family, 0 and dst untouched for another text, -1 for a family other
\* than AF_INET and AF_INET6.
inet_pton(family, src, dst) ==
    LET bytes == IF family = "AF_INET" THEN inet_pton4(src) ELSE inet_pton6(src)
    IN  IF family \notin {"AF_INET", "AF_INET6"} THEN [ret |-> -1, dst |-> dst]
        ELSE IF bytes # << >> THEN [ret |-> 1, dst |-> bytes]
        ELSE [ret |-> 0, dst |-> dst]

\* kr_straddr_subnet(dst, addr): the return value and what dst holds.
kr_straddr_subnet(dst, addr) ==
    IF dst.null \/ addr.null
    THEN [ret |-> kr_error(EINVAL), dst |-> dst]
    ELSE
    LET family == kr_straddr_family(addr)
        slash == strchr(addr.bytes, "/")
        addr_str == IF slash # 0 THEN SubSeq(addr.bytes, 1, slash - 1)
                    ELSE addr.bytes
        max_len == IF family = "AF_INET6" THEN 128 ELSE 32
        \* int bit_len = strtol(...): the long is narrowed to int
        bit_len == IF slash # 0 THEN int_of_long(strtol(addr.bytes, slash + 1).val)
                   ELSE max_len
        conv == inet_pton(family, addr_str, dst.bytes)
    IN  IF slash # 0 /\ (bit_len < 0 \/ bit_len > max_len)
        THEN [ret |-> kr_error(ERANGE), dst |-> dst]
        ELSE IF conv.ret < 0
        THEN [ret |-> kr_error(EILSEQ), dst |-> mk_buf(conv.dst)]
        ELSE [ret |-> bit_len, dst |-> mk_buf(conv.dst)]

\* Address parts: valid and invalid ones of both families.
SubnetAddrs ==
    { <<"1", ".", "2", ".", "3", ".", "4">>, <<"1", "0", ".", "0", ".", "0", ".", "0">>,
      <<"1", ".", "2", ".", "3">>, <<"3", "0", "0", ".", "1", ".", "1", ".", "1">>,
      <<"x">>, << >>,
      <<":", ":", "1">>, <<"f", "e", "8", "0", ":", ":", "1">>,
      <<":", ":", "2">>, <<"1", ":", ":">>,
      <<"1", ":", "2", ":", "3", ":", "4", ":", "5", ":", "6", ":", "7", ":", "8">>,
      <<":", ":", "f", "f", "f", "f", ":", "1", ".", "2", ".", "3", ".", "4">>,
      <<"1", ":", "2">>, <<":", ":", ":">>, <<":", ":", "1", "2", "3", "4", "5">>,
      <<":", "x">>, <<"1", ".", "2", ".", "3", ".", "4", ":">> }

\* The texts after the slash.
BitsTexts ==
    { <<"0">>, <<"8">>, <<"3", "2">>, <<"3", "3">>, <<"6", "4">>,
      <<"1", "2", "8">>, <<"1", "2", "9">>, <<"-", "1">>, <<"9", "9", "9">>,
      \* 2^32 + 8, 2^32 + 64, -(2^32 - 8), 2^31, and numbers out of long
      <<"4", "2", "9", "4", "9", "6", "7", "3", "0", "4">>,
      <<"4", "2", "9", "4", "9", "6", "7", "3", "6", "0">>,
      <<"-", "4", "2", "9", "4", "9", "6", "7", "2", "8", "8">>,
      <<"2", "1", "4", "7", "4", "8", "3", "6", "4", "8">>,
      [i \in 1..20 |-> "9"], <<"-">> \o [i \in 1..20 |-> "9"] }

SubnetCases ==
    { [kind |-> "subnet", dst |-> mk_buf(<<"?">>), addr |-> mk_buf(a \o rest)] :
        a \in SubnetAddrs,
        rest \in { << >> } \cup { <<"/">> \o t : t \in BitsTexts } }
    \cup { [kind |-> "subnet", dst |-> NULL, addr |-> mk_buf(<<":", ":", "1">>)],
           [kind |-> "subnet", dst |-> mk_buf(<<"?">>), addr |-> NULL] }

InitSubnet ==
    /\ array = << >> /\ ndebug = TRUE /\ last = NoCall
    /\ vin \in SubnetCases
    /\ vout = [op |-> "none"]
    /\ IdleCtx /\ IdleRnd

\* A call of kr_straddr_subnet.
StraddrSubnet ==
    /\ vin.kind = "subnet" /\ vout.op = "none"
    /\ LET r == kr_straddr_subnet(vin.dst, vin.addr)
       IN  vout' = [op |-> "subnet", ret |-> r.ret, dst |-> r.dst]
    /\ UNCHANGED <<rrvars, vin, ctxvars, rndvars>>

NextSubnet == StraddrSubnet

SpecSubnet == InitSubnet /\ [][NextSubnet]_vars

\* ------------------------------------------------ u16tostr, kr_rrkey

\* 1 << 28, and the half of its width.
TwoTo28 == 2^28
TwoTo14 == 2^14

\* (low * 10) for low < 2^28, as its bits from bit 28 up and its low 28
\* bits: the product is a uint32_t in the code and is taken in halves of 14
\* bits here, where a product stays below 2^31.
times10(low) ==
    LET hi == (low \div TwoTo14) * 10
        lo == (low % TwoTo14) * 10
        mid == hi + (lo \div TwoTo14)
    IN  [top |-> mid \div TwoTo14,
         low |-> ((mid % TwoTo14) * TwoTo14) + (lo % TwoTo14)]

\* The loop of u16tostr from dst[i] on; tmp is held as [top, low] with
\* tmp = top * 2^28 + low.
RECURSIVE u16_digits(_, _)
u16_digits(tmp, i) ==
    IF i >= 5 THEN << >>
    ELSE <<48 + tmp.top>> \o u16_digits(times10(tmp.low), i + 1)

\* u16tostr without the correction term num / 4.
u16tostr_nocorr(num) ==
    LET tmp == num * ((TwoTo28 \div 10000) + 1)
    IN  u16_digits([top |-> tmp \div TwoTo28, low |-> tmp % TwoTo28], 0)

\* u16tostr(dst, num): the 5 bytes written to dst (it returns 5).
u16tostr(num) ==
    LET tmp == num * ((TwoTo28 \div 10000) + 1) - (num \div 4)
    IN  u16_digits([top |-> tmp \div TwoTo28, low |-> tmp % TwoTo28], 0)

KNOT_DNAME_MAXLEN == 255

\* knot_dname_to_wire(dst, src, maxlen): the wire name is copied and its
\* length returned; the owners handed in here are names that fit.
knot_dname_to_wire(src, maxlen) == [ret |-> Len(src), wire |-> src]

\* knot_dname_to_lower(name) from pos on: the bytes of each label are
\* lowercased, the length bytes are left alone.
RECURSIVE knot_dname_to_lower(_, _)
knot_dname_to_lower(name, pos) ==
    IF pos > Len(name) \/ name[pos] = 0 THEN name
    ELSE knot_dname_to_lower(
             [i \in 1..Len(name) |->
                 IF i > pos /\ i <= pos + name[pos] /\ name[i] \in 65..90
                 THEN name[i] + 32 ELSE name[i]],
             pos + name[pos] + 1)

\* kr_rrkey that leaves the owner as it is.
kr_rrkey_nolower(key, class, owner, type, additional) ==
    IF key.null \/ owner.null THEN [ret |-> kr_error(EINVAL), key |-> key]
    ELSE
    LET w == knot_dname_to_wire(owner.bytes, KNOT_DNAME_MAXLEN)
        bytes == u16tostr(class)
                 \o SubSeq(w.wire, 1, w.ret - 1)
                 \o u16tostr(type) \o u16tostr(additional)
    IN  IF w.ret <= 0 THEN [ret |-> w.ret, key |-> key]
        ELSE [ret |-> Len(bytes), key |-> mk_buf(bytes)]

\* kr_rrkey(key, class, owner, type, additional): the returned length and the
\* string in key.  The type is written over the root label of the owner.
kr_rrkey(key, class, owner, type, additional) ==
    IF key.null \/ owner.null THEN [ret |-> kr_error(EINVAL), key |-> key]
    ELSE
    LET w == knot_dname_to_wire(owner.bytes, KNOT_DNAME_MAXLEN)
        lowered == knot_dname_to_lower(w.wire, 1)
        bytes == u16tostr(class)
                 \o SubSeq(lowered, 1, w.ret - 1)
                 \o u16tostr(type) \o u16tostr(additional)
    IN  IF w.ret <= 0 THEN [ret |-> w.ret, key |-> key]
        ELSE [ret |-> Len(bytes), key |-> mk_buf(bytes)]

\* Owners: the root, names that differ in case only, in a byte, in the
\* number of labels, and names with digits in them.
RRKeyOwners ==
    { wire_of(ls) : ls \in { << >>, <<<<97>>>>, <<<<65>>>>, <<<<98>>>>,
                             <<<<97, 98>>>>, <<<<65, 66>>>>, <<<<97, 66>>>>,
                             <<<<97>>, <<98>>>>, <<<<65>>, <<98>>>>,
                             <<<<97>>, <<48, 48>>>>, <<<<64>>>>, <<<<96>>>>,
                             <<<<90>>>>, <<<<122>>>>, <<<<91>>>>, <<<<123>>>> } }

RRKeyArgs ==
    { [class |-> c, owner |-> mk_buf(o), type |-> t, additional |-> a] :
        c \in {1, 255}, o \in RRKeyOwners, t \in {1, 46}, a \in {0, 1} }

RRKeyCases ==
    { [kind |-> "rrkey", a |-> x, b |-> y] : x \in RRKeyArgs, y \in RRKeyArgs }
    \cup { [kind |-> "rrkey", a |-> [x EXCEPT !.owner = NULL], b |-> x] :
             x \in { [class |-> 1, owner |-> mk_buf(<<0>>), type |-> 1,
                      additional |-> 0] } }

InitRRKey ==
    /\ array = << >> /\ ndebug = TRUE /\ last = NoCall
    /\ vin \in RRKeyCases
    /\ vout = [op |-> "none"]
    /\ IdleCtx /\ IdleRnd

\* Two calls of kr_rrkey, each with a key buffer of its own.
RRKey ==
    /\ vin.kind = "rrkey" /\ vout.op = "none"
    /\ LET ra == kr_rrkey(mk_buf(<< >>), vin.a.class, vin.a.owner, vin.a.type,
                          vin.a.additional)
           rb == kr_rrkey(mk_buf(<< >>), vin.b.class, vin.b.owner, vin.b.type,
                          vin.b.additional)
       IN  vout' = [op |-> "rrkey", a |-> ra, b |-> rb]
    /\ UNCHANGED <<rrvars, vin, ctxvars, rndvars>>

NextRRKey == RRKey

SpecRRKey == InitRRKey /\ [][NextRRKey]_vars

\* Calls of u16tostr with every 16-bit value.

\* ------------------------------------------------------- pkt_recycle

KNOT_WIRE_HEADER_SIZE == 12

\* A packet is its wire (the bytes up to pkt->size) and the length of the
\* question name the parser has found, qname_size (0 before parsing, after
\* a failed parse and without question).  The header is ID, flags, QDCOUNT,
\* ANCOUNT, NSCOUNT and ARCOUNT, 2 bytes each, the high byte first.
wire_u16(wire, off) == wire[off + 1] * 256 + wire[off + 2]

wire_set_u16(wire, off, v) ==
    [wire EXCEPT ![off + 1] = v \div 256, ![off + 2] = v % 256]

knot_wire_get_qdcount(wire) == wire_u16(wire, 4)

\* knot_dname_wire_check(name, endp): the length of the uncompressed name
\* that starts after position pos of wire, or 0 when the name is malformed
\* or runs over the end of the wire.
RECURSIVE knot_dname_wire_check(_, _, _)
knot_dname_wire_check(wire, pos, len) ==
    IF pos + 1 > Len(wire) THEN 0
    ELSE IF wire[pos + 1] = 0 THEN len + 1
    ELSE IF wire[pos + 1] > 63 THEN 0
    ELSE knot_dname_wire_check(wire, pos + 1 + wire[pos + 1],
                               len + 1 + wire[pos + 1])

\* knot_pkt_question_size(pkt)
knot_pkt_question_size(pkt) ==
    IF pkt.qname_size = 0 THEN 0 ELSE pkt.qname_size + 2 * 2

\* knot_pkt_parse_question(pkt): the result and the packet afterwards.
knot_pkt_parse_question(pkt) ==
    LET qd == knot_wire_get_qdcount(pkt.wire)
        len == knot_dname_wire_check(pkt.wire, KNOT_WIRE_HEADER_SIZE, 0)
    IN  IF Len(pkt.wire) < KNOT_WIRE_HEADER_SIZE
        THEN [ret |-> "KNOT_EMALF", pkt |-> pkt]
        ELSE IF qd > 1 THEN [ret |-> "KNOT_EMALF", pkt |-> pkt]
        ELSE IF qd = 0
        THEN [ret |-> "KNOT_EOK", pkt |-> [pkt EXCEPT !.qname_size = 0]]
        ELSE IF len <= 0 THEN [ret |-> "KNOT_EMALF", pkt |-> pkt]
        ELSE IF KNOT_WIRE_HEADER_SIZE + len + 2 * 2 > Len(pkt.wire)
        THEN [ret |-> "KNOT_EMALF", pkt |-> pkt]
        ELSE [ret |-> "KNOT_EOK", pkt |-> [pkt EXCEPT !.qname_size = len]]

\* pkt_recycle(pkt, keep_question): header and question are saved, the
\* packet is cleared, header and question are put back with the counters
\* cleared, and the question is parsed again.
pkt_recycle(pkt, keep_question) ==
    LET base_size == KNOT_WIRE_HEADER_SIZE
                     + (IF keep_question THEN knot_pkt_question_size(pkt) ELSE 0)
        buf == SubSeq(pkt.wire, 1, base_size)
        counts == wire_set_u16(wire_set_u16(wire_set_u16(wire_set_u16(buf,
                      4, IF keep_question THEN 1 ELSE 0), 6, 0), 8, 0), 10, 0)
    IN  knot_pkt_parse_question([wire |-> counts, qname_size |-> 0])

kr_pkt_recycle(pkt) == pkt_recycle(pkt, FALSE)

\* The uint16_t QDCOUNT is converted to bool: any value but 0 is true.
kr_pkt_clear_payload(pkt) ==
    pkt_recycle(pkt, knot_wire_get_qdcount(pkt.wire) # 0)

\* A wire of a header, a question or none, and a payload.
mk_wire(id, flags, qd, an, question, payload) ==
    id \o flags \o <<0, qd, 0, an, 0, 0, 0, an>> \o question \o payload

\* Questions: none, the root name and a name of one label, each with QTYPE
\* and QCLASS.
Questions ==
    { << >>, <<0, 0, 1, 0, 1>>, <<1, 97, 0, 0, 28, 0, 1>> }

\* Packets as received (the wire is not parsed yet) and packets after
\* knot_pkt_parse_question, which has found the question or failed.
PktWires ==
    { mk_wire(id, fl, qd, an, q, pl) :
        id \in { <<0, 1>>, <<171, 205>> },
        fl \in { <<1, 0>>, <<129, 128>> },
        qd \in {0, 1, 2}, an \in {0, 1},
        q \in Questions,
        pl \in { << >>, <<192, 12, 0, 1>> } }

PktCases ==
    { [kind |-> "pkt", pkt |-> [wire |-> w, qname_size |-> 0]] : w \in PktWires }
    \cup { [kind |-> "pkt",
            pkt |-> knot_pkt_parse_question([wire |-> w, qname_size |-> 0]).pkt] :
             w \in PktWires }

InitPkt ==
    /\ array = << >> /\ ndebug = TRUE /\ last = NoCall
    /\ vin \in PktCases
    /\ vout = [op |-> "none"]
    /\ IdleCtx /\ IdleRnd

\* A call of kr_pkt_recycle.
PktRecycle ==
    /\ vin.kind = "pkt" /\ vout.op = "none"
    /\ LET r == kr_pkt_recycle(vin.pkt)
       IN  vout' = [op |-> "recycle", ret |-> r.ret, pkt |-> r.pkt]
    /\ UNCHANGED <<rrvars, vin, ctxvars, rndvars>>

\* A call of kr_pkt_clear_payload.
PktClearPayload ==
    /\ vin.kind = "pkt" /\ vout.op = "none"
    /\ LET r == kr_pkt_clear_payload(vin.pkt)
       IN  vout' = [op |-> "clear_payload", ret |-> r.ret, pkt |-> r.pkt]
    /\ UNCHANGED <<rrvars, vin, ctxvars, rndvars>>

NextPkt == PktRecycle \/ PktClearPayload

SpecPkt == InitPkt /\ [][NextPkt]_vars

\* ------------------------------------------ kr_ntop_str, kr_straddr_join

ENOSPC == 28

EAFNOSUPPORT == 97

\* The characters of the codes 48 to 63; u16tostr writes '0' + (tmp >> 28).
AsciiChars ==
    <<"0", "1", "2", "3", "4", "5", "6", "7", "8", "9", ":", ";", "<", "=", ">", "?">>

\* The bytes u16tostr writes, as the characters of the char buffer they
\* are written to.
as_chars(bytes) == [i \in 1..Len(bytes) |-> AsciiChars[bytes[i] - 47]]

\* A number 0..255 in decimal without padding, as inet_ntop prints a byte
\* of an IPv4 address.
dec_chars(b) ==
    (IF b >= 100 THEN <<AsciiChars[(b \div 100) + 1]>> ELSE << >>)
    \o (IF b >= 10 THEN <<AsciiChars[((b \div 10) % 10) + 1]>> ELSE << >>)
    \o <<AsciiChars[(b % 10) + 1]>>

\* The text of an IPv4 address.
inet_ntop4(src) ==
    dec_chars(src[1]) \o <<".">> \o dec_chars(src[2]) \o <<".">>
    \o dec_chars(src[3]) \o <<".">> \o dec_chars(src[4])

\* A number printed with %x.
RECURSIVE hex_chars(_)
hex_chars(n) ==
    (IF n < 16 THEN << >> ELSE hex_chars(n \div 16))
    \o <<(SubSeq(AsciiChars, 1, 10) \o <<"a", "b", "c", "d", "e", "f">>)[(n % 16) + 1]>>

\* The length of the run of zero words of w that starts at i.
RECURSIVE zero_run(_, _)
zero_run(w, i) == IF i > 8 \/ w[i] # 0 THEN 0 ELSE 1 + zero_run(w, i + 1)

\* The first of the longest runs of two or more zero words: the run "::"
\* stands for; base is 0 when there is none.
best_run(w) ==
    LET len == CHOOSE n \in 0..8 :
                  /\ \E i \in 1..8 : zero_run(w, i) = n
                  /\ \A i \in 1..8 : zero_run(w, i) <= n
    IN  IF len < 2 THEN [base |-> 0, len |-> 0]
        ELSE [base |-> CHOOSE i \in 1..8 :
                          /\ zero_run(w, i) = len
                          /\ \A k \in 1..(i - 1) : zero_run(w, k) < len,
              len |-> len]

\* The text of the words of w from i on; an address of 6 zero words, or of 5
\* and ffff, in front of its last two words has these printed as an IPv4
\* address.
RECURSIVE v6_print(_, _, _, _)
v6_print(src, w, best, i) ==
    IF i > 8 THEN (IF best.base # 0 /\ best.base + best.len = 9 THEN <<":">> ELSE << >>)
    ELSE IF best.base # 0 /\ i >= best.base /\ i < best.base + best.len
    THEN (IF i = best.base THEN <<":">> ELSE << >>) \o v6_print(src, w, best, i + 1)
    ELSE IF i = 7 /\ best.base = 1 /\ (best.len = 6 \/ (best.len = 5 /\ w[6] = 65535))
    THEN <<":">> \o inet_ntop4(SubSeq(src, 13, 16))
    ELSE (IF i # 1 THEN <<":">> ELSE << >>) \o hex_chars(w[i])
         \o v6_print(src, w, best, i + 1)

\* The text of an IPv6 address: its 8 words in hexadecimal.
inet_ntop6(src) ==
    v6_print(src, [i \in 1..8 |-> src[2 * i - 1] * 256 + src[2 * i]],
             best_run([i \in 1..8 |-> src[2 * i - 1] * 256 + src[2 * i]]), 1)

\* IPv6 addresses handed to inet_ntop here: ::1, ::, ::2, fe80::1,
\* ::ffff:1.2.3.4 and 1:2:3:4:5:6:7:8.
V6Loopback == <<0, 0, 0, 0, 0, 0, 0, 0, 0, 0, 0, 0, 0, 0, 0, 1>>

V6Any == <<0, 0, 0, 0, 0, 0, 0, 0, 0, 0, 0, 0, 0, 0, 0, 0>>

V6Others ==
    { <<0, 0, 0, 0, 0, 0, 0, 0, 0, 0, 0, 0, 0, 0, 0, 2>>,
      <<254, 128, 0, 0, 0, 0, 0, 0, 0, 0, 0, 0, 0, 0, 0, 1>>,
      <<0, 0, 0, 0, 0, 0, 0, 0, 0, 0, 255, 255, 1, 2, 3, 4>>,
      <<0, 1, 0, 2, 0, 3, 0, 4, 0, 5, 0, 6, 0, 7, 0, 8>> }

\* inet_ntop(family, src, buf, size): the text of the address, or errno
\* when the family is not supported or the text and its terminator do not
\* fit in size bytes.
inet_ntop(family, src, size) ==
    LET text == IF family = "AF_INET" THEN inet_ntop4(src) ELSE inet_ntop6(src)
    IN  IF family \notin {"AF_INET", "AF_INET6"}
        THEN [ok |-> FALSE, errno |-> EAFNOSUPPORT, text |-> << >>]
        ELSE IF Len(text) + 1 > size
        THEN [ok |-> FALSE, errno |-> ENOSPC, text |-> << >>]
        ELSE [ok |-> TRUE, errno |-> 0, text |-> text]

\* kr_ntop_str(family, src, port, buf, buflen): the return value, the
\* string in buf (up to and without its terminator) and *buflen.
kr_ntop_str(family, src, port, buf, buflen) ==
    IF src.null \/ buf.null \/ buflen.null
    THEN [ret |-> kr_error(EINVAL), buf |-> buf, buflen |-> buflen]
    ELSE
    LET conv == inet_ntop(family, src.bytes, buflen.val)
        len == Len(conv.text)
        len_need == len + 1 + 5 + 1
    IN  IF ~conv.ok
        THEN [ret |-> kr_error(conv.errno), buf |-> buf, buflen |-> buflen]
        ELSE IF len_need > buflen.val
        THEN [ret |-> kr_error(ENOSPC), buf |-> mk_buf(conv.text),
              buflen |-> [null |-> FALSE, val |-> len_need]]
        ELSE [ret |-> kr_ok,
              buf |-> mk_buf(conv.text \o <<"#">> \o as_chars(u16tostr(port))),
              buflen |-> [null |-> FALSE, val |-> len_need]]

\* kr_straddr_join(addr, port, buf, buflen): the return value, the string
\* in buf and *buflen.
kr_straddr_join(addr, port, buf, buflen) ==
    IF addr.null \/ buf.null \/ buflen.null
    THEN [ret |-> kr_error(EINVAL), buf |-> buf, buflen |-> buflen]
    ELSE
    LET family == kr_straddr_family(addr)
        len == Len(addr.bytes)
        \* kr_straddr_family gives kr_error(EINVAL) for a NULL addr only
        no_family == family \notin {"AF_INET", "AF_INET6"}
    IN  IF no_family \/ inet_pton(family, addr.bytes, << >>).ret = 0
        THEN [ret |-> kr_error(EINVAL), buf |-> buf, buflen |-> buflen]
        ELSE IF len + 6 >= buflen.val
        THEN [ret |-> kr_error(ENOSPC), buf |-> buf, buflen |-> buflen]
        ELSE [ret |-> kr_ok,
              buf |-> mk_buf(addr.bytes \o <<"#">> \o as_chars(u16tostr(port))),
              buflen |-> [null |-> FALSE, val |-> len + 6]]

mk_size(n) == [null |-> FALSE, val |-> n]

BufLens == {4, 8, 13, 14, 15, 64}

U16Cases == { [kind |-> "u16", num |-> n] : n \in 0..UINT16_MAX }

JoinCases ==
    { [kind |-> "join", addr |-> mk_buf(a), port |-> p, buf |-> mk_buf(<<"?">>),
       buflen |-> mk_size(n)] :
        a \in { <<"1", ".", "2", ".", "3", ".", "4">>, <<"1", ".", "2", ".", "3">>,
                <<":", ":", "1">>, <<":", "x">> },
        p \in Ports, n \in BufLens }
    \cup { [kind |-> "join", addr |-> NULL, port |-> 53, buf |-> mk_buf(<<"?">>),
            buflen |-> mk_size(64)],
           [kind |-> "join", addr |-> mk_buf(<<":", ":", "1">>), port |-> 53,
            buf |-> NULL, buflen |-> mk_size(64)],
           [kind |-> "join", addr |-> mk_buf(<<":", ":", "1">>), port |-> 53,
            buf |-> mk_buf(<<"?">>), buflen |-> NULL] }

NtopCases ==
    { [kind |-> "ntop", family |-> c[1], src |-> mk_buf(c[2]), port |-> p,
       buf |-> mk_buf(<<"?">>), buflen |-> mk_size(n)] :
        c \in { <<"AF_INET", <<1, 2, 3, 4>>>>, <<"AF_INET", <<127, 0, 0, 1>>>>,
                <<"AF_INET", <<255, 255, 255, 255>>>>,
                <<"AF_INET6", V6Loopback>>, <<"AF_INET6", V6Any>>,
                <<"AF_UNIX", V6Any>> }
              \cup { <<"AF_INET6", a>> : a \in V6Others },
        p \in Ports, n \in BufLens }
    \cup { [kind |-> "ntop", family |-> "AF_INET", src |-> NULL, port |-> 53,
            buf |-> mk_buf(<<"?">>), buflen |-> mk_size(64)],
           [kind |-> "ntop", family |-> "AF_INET", src |-> mk_buf(<<1, 2, 3, 4>>),
            port |-> 53, buf |-> NULL, buflen |-> mk_size(64)],
           [kind |-> "ntop", family |-> "AF_INET", src |-> mk_buf(<<1, 2, 3, 4>>),
            port |-> 53, buf |-> mk_buf(<<"?">>), buflen |-> NULL] }

InitU16 ==
    /\ array = << >> /\ ndebug = TRUE /\ last = NoCall
    /\ vin \in U16Cases \cup JoinCases \cup NtopCases
    /\ vout = [op |-> "none"]
    /\ IdleCtx /\ IdleRnd

\* A call of u16tostr.
U16ToStr ==
    /\ vin.kind = "u16" /\ vout.op = "none"
    /\ vout' = [op |-> "u16tostr", ret |-> 5, dst |-> u16tostr(vin.num)]
    /\ UNCHANGED <<rrvars, vin, ctxvars, rndvars>>

\* A call of kr_straddr_join.
StraddrJoin ==
    /\ vin.kind = "join" /\ vout.op = "none"
    /\ LET r == kr_straddr_join(vin.addr, vin.port, vin.buf, vin.buflen)
       IN  vout' = [op |-> "join", ret |-> r.ret, buf |-> r.buf, buflen |-> r.buflen]
    /\ UNCHANGED <<rrvars, vin, ctxvars, rndvars>>

\* A call of kr_ntop_str.
NtopStr ==
    /\ vin.kind = "ntop" /\ vout.op = "none"
    /\ LET r == kr_ntop_str(vin.family, vin.src, vin.port, vin.buf, vin.buflen)
       IN  vout' = [op |-> "ntop", ret |-> r.ret, buf |-> r.buf, buflen |-> r.buflen]
    /\ UNCHANGED <<rrvars, vin, ctxvars, rndvars>>

NextU16 == U16ToStr \/ StraddrJoin \/ NtopStr

SpecU16 == InitU16 /\ [][NextU16]_vars

\* ----------------------------------------------------- kr_rnd_buffered

\* Most gnutls_rnd calls in a run.
MaxRndCalls == 3

\* rnd_noerror(data, size), as the gnutls_rnd call number call: size fresh
\* random bytes, or the process is aborted when gnutls_rnd fails.
rnd_noerror(call, size, rnd_ok) ==
    IF rnd_ok THEN [aborted |-> FALSE, data |-> rnd_bytes(call, size)]
    ELSE [aborted |-> TRUE, data |-> << >>]

\* kr_rnd_buffered that starts the refilled buffer over from its first byte.
kr_rnd_buffered_rewind(b, begin, calls, size, rnd_ok) ==
    LET size1 == IF size < RndBufSize - begin THEN size ELSE RndBufSize - begin
        chunk1 == SubSeq(b, begin + 1, begin + size1)
        direct == rnd_noerror(calls + 1, size, rnd_ok)
        refill == rnd_noerror(calls + 1, RndBufSize, rnd_ok)
    IN  IF size > RndBufSize
        THEN [data |-> direct.data, buf |-> b, buf_begin |-> begin,
              calls |-> calls + 1, aborted |-> direct.aborted]
        ELSE IF size1 = size
        THEN [data |-> chunk1, buf |-> b, buf_begin |-> begin + size1,
              calls |-> calls, aborted |-> FALSE]
        ELSE IF refill.aborted
        THEN [data |-> chunk1, buf |-> b, buf_begin |-> begin,
              calls |-> calls + 1, aborted |-> TRUE]
        ELSE [data |-> chunk1 \o SubSeq(refill.data, 1, size - size1),
              buf |-> refill.data, buf_begin |-> 0,
              calls |-> calls + 1, aborted |-> FALSE]

\* kr_rnd_buffered(data, size) on the static buf b and buf_begin begin, after
\* calls calls of gnutls_rnd: the bytes written to data, the static state
\* afterwards and whether the process was aborted.
kr_rnd_buffered(b, begin, calls, size, rnd_ok) ==
    LET size1 == IF size < RndBufSize - begin THEN size ELSE RndBufSize - begin
        chunk1 == SubSeq(b, begin + 1, begin + size1)
        direct == rnd_noerror(calls + 1, size, rnd_ok)
        refill == rnd_noerror(calls + 1, RndBufSize, rnd_ok)
    IN  IF size > RndBufSize
        THEN [data |-> direct.data, buf |-> b, buf_begin |-> begin,
              calls |-> calls + 1, aborted |-> direct.aborted]
        ELSE IF size1 = size
        THEN [data |-> chunk1, buf |-> b, buf_begin |-> begin + size1,
              calls |-> calls, aborted |-> FALSE]
        ELSE IF refill.aborted
        THEN [data |-> chunk1, buf |-> b, buf_begin |-> begin,
              calls |-> calls + 1, aborted |-> TRUE]
        ELSE [data |-> chunk1 \o SubSeq(refill.data, 1, size - size1),
              buf |-> refill.data, buf_begin |-> size - size1,
              calls |-> calls + 1, aborted |-> FALSE]

\* The sizes asked for: nothing, a few bytes, about half of the buffer, the
\* whole buffer, and more than the buffer holds.
RndSizes == {0, 1, 5, 31, 33, 64, 65, 70}

InitRnd ==
    /\ array = << >> /\ ndebug = TRUE /\ last = NoCall
    /\ IdleVal /\ IdleCtx /\ IdleRnd

\* A call of kr_rnd_buffered; the calls are made one after another.
RndBuffered ==
    /\ ~crashed
    /\ \E size \in RndSizes, rnd_ok \in BOOLEAN :
          LET r == kr_rnd_buffered(rnd_buf, buf_begin, rnd_calls, size, rnd_ok)
          IN  /\ r.calls <= MaxRndCalls
              /\ rnd_buf' = r.buf
              /\ buf_begin' = r.buf_begin
              /\ rnd_calls' = r.calls
              /\ crashed' = r.aborted
              /\ handed' = IF r.aborted THEN handed
                           ELSE handed \cup { r.data[i] : i \in 1..Len(r.data) }
              /\ vout' = [op |-> "rnd", size |-> size, data |-> r.data,
                          aborted |-> r.aborted]
    /\ UNCHANGED <<rrvars, vin, result, pkts, txns, cret>>

NextRnd == RndBuffered

SpecRnd == InitRnd /\ [][NextRnd]_vars

\* ------------------------------------------------- claims: ranked array

\* The RR-set identity the claims speak of: equal owner, class and type, and
\* equal covered type when the type is RRSIG.
SameRRSet(rr1, rr2) ==
    /\ rr1.owner = rr2.owner
    /\ rr1.rclass = rr2.rclass
    /\ rr1.type = rr2.type
    /\ (rr1.type = "RRSIG" => rr1.covered = rr2.covered)

\* The positions of the trailing run of arr for qry_uid: the entries after the
\* last entry that is yielded or belongs to another query.
TrailingRun(arr, qry_uid) ==
    {i \in 1..Len(arr) :
        \A j \in i..Len(arr) : arr[j].qry_uid = qry_uid /\ ~arr[j].yielded}

\* The positions of the trailing run whose RR set matches rr.
RunMatches(arr, rr, qry_uid) ==
    {i \in TrailingRun(arr, qry_uid) : SameRRSet(arr[i].rr, rr)}

MaxOf(S) == CHOOSE m \in S : \A x \in S : x <= m

\* Everything of an entry but its to_wire flag.
SansWire(e) == [e EXCEPT !.to_wire = FALSE]

\* C1: after any sequence of kr_ranked_rrarray_add calls and
\* kr_ranked_rrarray_set_wire calls with check_dups = true, no two entries
\* with to_wire = true are the same RR set.
C1_ToWireUnique ==
    \A i, j \in 1..Len(array) :
        (i # j /\ array[i].to_wire /\ array[j].to_wire)
            => ~SameRRSet(array[i].rr, array[j].rr)

\* C2: kr_ranked_rrarray_add keeps at most one entry per (qry_uid, RR set).
\* For the calls that return success: when some entry of the array, wherever
\* it sits, has the given qry_uid and a matching RR set, the rdata is merged
\* into such an entry and the length is unchanged; otherwise exactly one
\* entry is appended.
C2_MergeAnywhere ==
    [][(last'.op = "add" /\ last'.ret = kr_ok) =>
        LET a == last'
            M == {i \in 1..Len(array) :
                     array[i].qry_uid = a.qry_uid /\ SameRRSet(array[i].rr, a.rr)}
        IN  IF M # {}
            THEN /\ Len(array') = Len(array)
                 /\ \E i \in M :
                       array'[i].rr.rdata = array[i].rr.rdata \cup a.rr.rdata
            ELSE Len(array') = Len(array) + 1]_vars

\* C3 as stated: a call for a (qry_uid, RR set) that has an entry of a lower
\* rank succeeds and the entry takes the given rank.
C3_RankRaised ==
    [][last'.op = "add" =>
        LET a == last'
            M == RunMatches(array, a.rr, a.qry_uid)
        IN  (M # {} /\ array[MaxOf(M)].rank < a.rank /\ ~a.oom)
                => a.ret = kr_ok /\ array'[MaxOf(M)].rank = a.rank]_vars

\* C3, amended: a call for a (qry_uid, RR set) whose entry has another rank
\* than the given one, higher or lower, fails with EEXIST (the consistency
\* assertion, which aborts a build without NDEBUG) and changes nothing; under
\* any sequence of calls the rank of an entry never changes, so it never
\* decreases.
C3_RankNeverChanges ==
    [][last'.op = "add" =>
        LET a == last'
            M == RunMatches(array, a.rr, a.qry_uid)
        IN  /\ (M # {} /\ array[MaxOf(M)].rank # a.rank)
                  => /\ a.ret = kr_error(EEXIST)
                     /\ a.asserted = ~ndebug
                     /\ array' = array
            /\ Len(array') >= Len(array)
            /\ \A i \in 1..Len(array) : array'[i].rank = array[i].rank]_vars

\* C3 witness: a call with a higher rank than the entry's has been refused.
C3_Witness ==
    /\ last.op = "add" /\ last.ret = kr_error(EEXIST)
    /\ \E i \in 1..Len(array) :
          /\ array[i].qry_uid = last.qry_uid
          /\ SameRRSet(array[i].rr, last.rr)
          /\ array[i].rank < last.rank

\* C4, for the calls made with to_wire = true: after kr_ranked_rrarray_add
\* returns success, every entry of another query whose RR set matches the
\* added one has to_wire = false.
C4_OthersCleared ==
    [][(last'.op = "add" /\ last'.ret = kr_ok /\ last'.to_wire) =>
        \A i \in 1..Len(array') :
            (array'[i].qry_uid # last'.qry_uid /\ SameRRSet(array'[i].rr, last'.rr))
                => ~array'[i].to_wire]_vars

\* C5: kr_ranked_rrarray_set_wire sets to_wire to the given value on exactly
\* the entries of the given query that satisfy the callback; an entry of
\* another query keeps its flag, except that with check_dups and value true it
\* is cleared when its RR set matches a toggled entry; nothing else changes
\* and the call succeeds.
C5_SetWireFrame ==
    [][last'.op = "set_wire" =>
        LET a == last'
            T == {i \in 1..Len(array) :
                     /\ array[i].qry_uid = a.qry_uid
                     /\ (a.pred = "NULL" \/ extraCheck(a.pred, array[i]))}
        IN  /\ a.ret = kr_ok
            /\ Len(array') = Len(array)
            /\ \A i \in 1..Len(array) :
                  /\ SansWire(array'[i]) = SansWire(array[i])
                  /\ array'[i].to_wire =
                        IF i \in T THEN a.to_wire
                        ELSE IF array[i].qry_uid = a.qry_uid THEN array[i].to_wire
                        ELSE IF /\ a.check_dups /\ a.to_wire
                                /\ \E t \in T : SameRRSet(array[t].rr, array[i].rr)
                             THEN FALSE
                             ELSE array[i].to_wire]_vars

\* C5 witness: a call with check_dups and a callback has set the flag of one
\* entry of the query, and a matching entry of another query is clear.
C5_Witness ==
    /\ last.op = "set_wire" /\ last.check_dups /\ last.to_wire
    /\ last.pred # "NULL"
    /\ \E i, j \in 1..Len(array) :
          /\ array[i].qry_uid = last.qry_uid
          /\ extraCheck(last.pred, array[i])
          /\ array[i].to_wire
          /\ array[j].qry_uid # last.qry_uid
          /\ SameRRSet(array[i].rr, array[j].rr)
          /\ ~array[j].to_wire

\* ------------------------------------------------------ claims: DNSSEC

\* The label count the per-signature check compares with: the labels of the
\* owner, less the asterisk of a wildcard owner.
NLabels(owner) == IF owner[1] = "*" THEN Len(owner) - 1 ELSE Len(owner)

\* The signature an event of the log is about.
SigOf(e) == vin.sec[e.set].rrs[e.sig]

Returned == vout.op \in {"validate", "validate_with_key"}

\* A DNSKEY rdata a key can be made of, and the key made of it.
KeyParsable(rdata) == rdata.rdlen # 0 /\ rdata.wellformed

KeyOf(rdata) ==
    [null |-> FALSE, keytag |-> rdata.tag, pub |-> rdata.pub, alg |-> rdata.alg]

\* The key at position k of the set has been made: its rdata is parsable and
\* no library call failed for it.
KeyMade(k) ==
    /\ KeyParsable(vin.keys.rrs[k])
    /\ k \notin vin.libs.key_new_fails
    /\ k \notin vin.libs.set_dname_fails

\* The RRSIG at position j of the RR set i of the section is in its validity
\* period, is signed by the zone, covers the RR set, names the key at
\* position k and verifies with it.
ValidRRSIG(i, j, k) ==
    LET rrset == vin.sec[i]
        sig == rrset.rrs[j]
        rdata == vin.keys.rrs[k]
    IN  /\ rrset.type = "RRSIG"
        /\ sig.inception <= vin.timestamp /\ vin.timestamp <= sig.expiration
        /\ sig.signer_name = vin.zone_name
        /\ sig.type_covered = vin.covered.type
        /\ rrset.rclass = vin.covered.rclass
        /\ rrset.owner = vin.covered.owner
        /\ vin.keys.owner = sig.signer_name
        /\ KeyParsable(rdata)
        /\ rdata.alg = sig.algorithm
        /\ rdata.tag = sig.key_tag
        /\ \E trim \in 0..Len(vin.covered.owner) :
              kr_check_signature(rrset, j, KeyOf(rdata), vin.covered, trim) = kr_ok

\* C6: kr_rrset_validate and kr_rrset_validate_with_key return success only
\* if the section holds an RRSIG that is in its validity period, is signed by
\* zone_name, matches the covered RR set in type, class and owner, names the
\* key by owner, algorithm and key tag, and verifies with that key; the result
\* is a non-zero error otherwise.
C6_SuccessNeedsValidRRSIG ==
    (Returned /\ vout.ret = kr_ok) =>
        \E i \in 1..Len(vin.sec) : \E j \in 1..Len(vin.sec[i].rrs) :
           \E k \in 1..Len(vin.keys.rrs) :
              /\ vout.key_pos = k
              /\ ValidRRSIG(i, j, k)

\* C6 witness: kr_rrset_validate has succeeded with the second key after the
\* first key matched no signature.
C6_Witness ==
    /\ vout.op = "validate" /\ vout.ret = kr_ok /\ vout.key_pos = 2

\* Whether the wildcard answer check of the authority section succeeds for a
\* signature handed to verification with the given trim.
WildcardProof(trim) ==
    IF ~vin.has_nsec3
    THEN kr_nsec_wildcard_answer_response_check(vin.pkt, vin.covered.owner) = kr_ok
    ELSE kr_nsec3_wildcard_answer_response_check(vin.pkt, vin.covered.owner,
                                                 trim - 1) = kr_ok

\* C7: when the call returns success on the strength of a signature that has
\* fewer labels than the owner, the wildcard answer check (NSEC, or NSEC3 with
\* trim_labels - 1) succeeds for that signature; a signature whose wildcard
\* check failed is never the one the success rests on.
C7_WildcardNeedsProof ==
    (Returned /\ vout.ret = kr_ok) =>
        LET n == Len(vout.log)
            e == vout.log[n]
        IN  /\ n >= 1
            /\ e.check = kr_ok
            /\ SigOf(e).labels < NLabels(vin.covered.owner) => WildcardProof(e.trim)
            /\ \A x \in 1..n :
                  (vout.log[x].wc # "none" /\ vout.log[x].wc_ret # kr_ok) => x < n

\* C7 witness: a call for a zone with NSEC3 has succeeded with a
\* wildcard-expanded signature after an earlier signature failed verification.
C7_Witness ==
    /\ Returned /\ vout.ret = kr_ok /\ vin.has_nsec3
    /\ Len(vout.log) >= 2
    /\ vout.log[Len(vout.log)].flags = FLG_WILDCARD_EXPANSION
    /\ vout.log[Len(vout.log)].wc = "nsec3"

\* C8 as stated: a signature with more labels than n is rejected, one with n
\* labels sets no flag and is verified with trim 0, and one with fewer labels
\* sets the flag and is verified with trim n - labels.
C8_TrimIsNMinusLabels ==
    Returned =>
        \A x \in 1..Len(vout.log) :
            LET e == vout.log[x]
                n == NLabels(vin.covered.owner)
            IN  /\ SigOf(e).labels <= n
                /\ SigOf(e).labels = n => (e.flags = 0 /\ e.trim = 0)
                /\ SigOf(e).labels < n =>
                      /\ e.flags = FLG_WILDCARD_EXPANSION
                      /\ e.trim = n - SigOf(e).labels

\* C8, amended: the trim handed to the verification of a wildcard-expanded
\* signature is the label count of the owner (its asterisk included) less the
\* labels of the RRSIG: n - labels for a plain owner, n - labels + 1 for an
\* owner that is itself a wildcard name.
C8_TrimIsLabelsDiff ==
    Returned =>
        \A x \in 1..Len(vout.log) :
            LET e == vout.log[x]
                n == NLabels(vin.covered.owner)
            IN  /\ SigOf(e).labels <= n
                /\ SigOf(e).labels = n => (e.flags = 0 /\ e.trim = 0)
                /\ SigOf(e).labels < n =>
                      /\ e.flags = FLG_WILDCARD_EXPANSION
                      /\ e.trim = Len(vin.covered.owner) - SigOf(e).labels
                      /\ e.trim = IF vin.covered.owner[1] = "*"
                                  THEN n - SigOf(e).labels + 1
                                  ELSE n - SigOf(e).labels

\* C8 witness: a wildcard-expanded signature of an owner that is itself a
\* wildcard name has been handed to verification.
C8_Witness ==
    /\ Returned /\ ~vin.covered.null
    /\ vin.covered.owner[1] = "*"
    /\ \E x \in 1..Len(vout.log) : vout.log[x].flags = FLG_WILDCARD_EXPANSION

\* The flags words with the zone-key bit (0x0100) set and the revoke bit
\* (0x0080) clear, among those of the keys tried.
ZoneKeyFlags == {256, 257}

\* A key of the set has the zone-key flag and is not revoked; it is
\* authenticated against the trust anchor; it validates the DNSKEY RR set.
KeyUsable(k) == vin.keys.rrs[k].flags \in ZoneKeyFlags

KeyAuthenticated(k) ==
    /\ KeyMade(k)
    /\ vin.keys.rrs[k].pub \in vin.ta.ds

KeySelfSigns(k) ==
    /\ KeyMade(k)
    /\ \E i \in 1..Len(vin.sec) : \E j \in 1..Len(vin.sec[i].rrs) :
          ValidRRSIG(i, j, k)

KeyTrusted(k) == KeyUsable(k) /\ KeyAuthenticated(k) /\ KeySelfSigns(k)

\* C9: a call of kr_dnskeys_trusted with a packet, a DNSKEY set and a trust
\* anchor returns success iff some key has the zone-key flag set and the
\* revoke flag clear, is authenticated by kr_authenticate_referral and
\* validates the DNSKEY RR set at its own position; it returns ENOENT when no
\* key does; a key that fails a condition is not used for a later one.  (A
\* call with a NULL argument looks at no key and returns EINVAL.)
C9_TrustedIffSomeKey ==
    vout.op = "dnskeys_trusted" =>
        IF vin.pkt.null \/ vin.keys.null \/ vin.ta.null
        THEN vout.ret = kr_error(EINVAL) /\ vout.trace = << >>
        ELSE
        /\ vout.ret = kr_ok <=> \E k \in 1..Len(vin.keys.rrs) : KeyTrusted(k)
        /\ vout.ret # kr_ok => vout.ret = kr_error(ENOENT)
        /\ vout.ret = kr_ok =>
              /\ KeyTrusted(vout.key_pos)
              /\ \A k \in 1..(vout.key_pos - 1) : ~KeyTrusted(k)
              /\ Len(vout.trace) = vout.key_pos
        /\ \A x \in 1..Len(vout.trace) :
              LET t == vout.trace[x]
              IN  /\ t.pos = x
                  /\ t.parsed <=> KeyUsable(x)
                  /\ t.auth <=> (KeyUsable(x) /\ KeyMade(x))
                  /\ t.validated <=> (KeyUsable(x) /\ KeyAuthenticated(x))

\* C9 witness: the call has succeeded with the second key after the first, a
\* zone key, was not authenticated.
C9_Witness ==
    /\ vout.op = "dnskeys_trusted" /\ vout.ret = kr_ok /\ vout.key_pos = 2
    /\ vout.trace[1].auth /\ ~vout.trace[1].validated

\* ------------------------------------------------- claims: lib/context.c

\* C10: every cache transaction begun by kr_result_init is committed at most
\* once, and only when its request succeeded: never for a failed or cancelled
\* request.  (A commit of the NULL txn of a failed kr_result_init names no
\* transaction and is not counted.)
C10_CommitOnceOnSuccess ==
    \A t \in 1..Len(txns) :
        /\ txns[t].commits <= 1
        /\ txns[t].commits >= 1 => txns[t].status = "ok"

\* C19: whenever kr_result_init has returned failure, result->ans and
\* result->txn are NULL; the result never refers to a freed answer packet,
\* so kr_result_deinit frees nothing twice.
C19_FailedInitLeavesNoReference ==
    /\ (cret.op = "init" /\ cret.ret # 0) => (result.ans = 0 /\ result.txn = 0)
    /\ (result.init /\ result.ans # 0) => pkts[result.ans] = "live"
    /\ ~crashed

\* ------------------------------------------ claims: knot_dname_lf2wire

\* The LF input of the call, and the call having been made on buffers.
LfBytes == vin.lf.bytes

LfReturned == vout.op = "lf2wire" /\ ~vin.dst.null /\ ~vin.lf.null

\* An LF input holds a label of length 0 when it starts with a zero byte or
\* has two adjacent zero bytes, and a label longer than 63 bytes when 64
\* bytes in a row are not zero.
HasEmptyLabel(b) ==
    /\ b # << >>
    /\ \/ b[1] = 0
       \/ \E i \in 1..(Len(b) - 1) : b[i] = 0 /\ b[i + 1] = 0

HasLongLabel(b) ==
    \E i \in 1..(Len(b) - 63) : \A k \in i..(i + 63) : b[k] # 0

\* C11: knot_dname_lf2wire returns EILSEQ for every LF input with a label of
\* length 0 or longer than 63 bytes, and success for every non-empty LF input
\* whose labels all have length 1..63, with or without the final zero byte.
C11_LabelLengthsChecked ==
    (LfReturned /\ vin.len >= 1) =>
        IF HasEmptyLabel(LfBytes) \/ HasLongLabel(LfBytes)
        THEN vout.ret = kr_error(EILSEQ)
        ELSE vout.ret > 0

\* A wire name is valid from pos on when each label has 1..63 bytes and the
\* root label ends it.
RECURSIVE valid_wire(_, _)
valid_wire(w, pos) ==
    IF pos > Len(w) THEN FALSE
    ELSE IF w[pos] = 0 THEN pos = Len(w)
    ELSE w[pos] <= 63 /\ valid_wire(w, pos + w[pos] + 1)

ValidName(w) == Len(w) <= 255 /\ valid_wire(w, 1)

\* C12: for every valid name, the root included, knot_dname_lf2wire of its LF
\* form (with the final zero byte or without) is the wire form of the name,
\* and the returned length is the length of the wire form.
C12_RoundTrip ==
    (LfReturned /\ ValidName(vin.wire)) =>
        LET lf == knot_dname_lf(vin.wire, 1)
        IN  /\ LfBytes \in { lf, SubSeq(lf, 1, Len(lf) - 1) }
            /\ vout.wire = vin.wire
            /\ vout.ret = Len(vin.wire)

\* C20: for an LF input of length 1..255 knot_dname_lf2wire returns an error
\* or a wire name of at most 255 bytes that holds every label of the input;
\* it never returns the root name for a non-empty input.
C20_WireHoldsEveryLabel ==
    (LfReturned /\ vin.len >= 1 /\ vout.ret > 0) =>
        /\ vout.ret = Len(vout.wire)
        /\ vout.ret <= 255
        /\ vout.ret # 1
        /\ knot_dname_lf(vout.wire, 1) =
              IF LfBytes[vin.len] = 0 THEN LfBytes ELSE LfBytes \o <<0>>

\* ------------------------------------------ claims: kr_inaddr_set_port

\* The set of fields a call has written.
Written == { vout.writes[i] : i \in 1..Len(vout.writes) }

\* C13: kr_inaddr_set_port writes only the port field of the address family:
\* sin_port alone for AF_INET, sin6_port alone for AF_INET6, and nothing for
\* a NULL address or another family.
C13_OnlyFamilyPortWritten ==
    vout.op = "set_port" =>
        /\ vin.addr.null => Written = {}
        /\ ~vin.addr.null =>
              Written = CASE vin.addr.sa_family = "AF_INET" -> {"sin_port"}
                          [] vin.addr.sa_family = "AF_INET6" -> {"sin6_port"}
                          [] OTHER -> {}

\* -------------------------------------------- claims: kr_straddr_split

\* The position of the separator the port follows: the first '@', or the
\* first '#' of an input without '@'; 0 without separator.
FirstOf(s, c) ==
    IF \E i \in 1..Len(s) : s[i] = c
    THEN CHOOSE i \in 1..Len(s) : s[i] = c /\ \A k \in 1..(i - 1) : s[k] # c
    ELSE 0

SeparatorAt(s) == IF FirstOf(s, "@") # 0 THEN FirstOf(s, "@") ELSE FirstOf(s, "#")

\* The value of a text of decimal digits; of a value of 10^8 or more only
\* that it is one: it is above every port and every bit length.
RECURSIVE DecimalValue(_)
DecimalValue(t) ==
    IF t = << >> THEN 0
    ELSE IF DecimalValue(SubSeq(t, 1, Len(t) - 1)) >= 100000000 THEN 100000000
    ELSE 10 * DecimalValue(SubSeq(t, 1, Len(t) - 1)) + digit_val[t[Len(t)]]

\* A text is a port when it is a non-empty decimal number in [1, 65535]
\* with nothing after it.
IsPortText(t) ==
    /\ t # << >>
    /\ \A i \in 1..Len(t) : t[i] \in DigitChars
    /\ DecimalValue(t) \in 1..65535

\* C14: kr_straddr_split accepts an input with a separator only when the
\* text after it is a non-empty decimal number in [1, 65535] with nothing
\* after it, and fails with EILSEQ otherwise; an input without separator
\* (that fits ipaddr) succeeds, is copied whole and leaves *port unchanged.
C14_PortTextChecked ==
    vout.op = "split" =>
        LET s == vin.instr
            sep == SeparatorAt(s)
            text == SubSeq(s, sep + 1, Len(s))
        IN  /\ vout.ret # kr_ok => vout.ret = kr_error(EILSEQ)
            /\ (sep # 0 /\ vout.ret = kr_ok) =>
                  /\ IsPortText(text)
                  /\ vout.port = DecimalValue(text)
                  /\ vout.ipaddr = SubSeq(s, 1, sep - 1)
            /\ (sep # 0 /\ ~IsPortText(text)) => vout.ret = kr_error(EILSEQ)
            /\ (sep = 0 /\ Len(s) <= INET6_ADDRSTRLEN) =>
                  /\ vout.ret = kr_ok
                  /\ vout.ipaddr = s
                  /\ vout.port = vin.port

\* ------------------------------------------- claims: kr_straddr_subnet

\* The value of a text of digits with an optional minus sign.
SignedValue(t) ==
    IF t[1] = "-" THEN -DecimalValue(Tail(t)) ELSE DecimalValue(t)

\* C15: kr_straddr_subnet on 'addr/bits' returns bits when bits is in [0, 32]
\* for IPv4 and in [0, 128] for IPv6, ERANGE for bits outside the range, the
\* family maximum without '/bits', and an error, not a bit length, when the
\* address part is not a valid address of the detected family.
C15_SubnetBits ==
    (vout.op = "subnet" /\ ~vin.dst.null /\ ~vin.addr.null) =>
        LET s == vin.addr.bytes
            slash == FirstOf(s, "/")
            v6 == \E i \in 1..Len(s) : s[i] = ":"
            max == IF v6 THEN 128 ELSE 32
            part == IF slash = 0 THEN s ELSE SubSeq(s, 1, slash - 1)
            valid == inet_pton(IF v6 THEN "AF_INET6" ELSE "AF_INET",
                               part, << >>).ret = 1
            bits == SignedValue(SubSeq(s, slash + 1, Len(s)))
        IN  /\ (slash # 0 /\ bits \notin 0..max) => vout.ret = kr_error(ERANGE)
            /\ (slash # 0 /\ bits \in 0..max /\ valid) => vout.ret = bits
            /\ (slash = 0 /\ valid) => vout.ret = max
            /\ ~valid => vout.ret < 0

\* ---------------------------------------------------- claims: kr_rrkey

\* The zero-padded decimal digits of a 16-bit value, as characters.
Decimal5(n) ==
    <<48 + ((n \div 10000) % 10), 48 + ((n \div 1000) % 10),
      48 + ((n \div 100) % 10), 48 + ((n \div 10) % 10), 48 + (n % 10)>>

LowerByte(b) == IF b \in 65..90 THEN b + 32 ELSE b

\* Two owners in wire form are equal ignoring ASCII case.
SameOwner(o1, o2) ==
    /\ Len(o1) = Len(o2)
    /\ \A i \in 1..Len(o1) : LowerByte(o1[i]) = LowerByte(o2[i])

SameRecord(x, y) ==
    /\ x.class = y.class /\ x.type = y.type /\ x.additional = y.additional
    /\ SameOwner(x.owner.bytes, y.owner.bytes)

RRKeyReturned == vout.op = "rrkey" /\ ~vin.a.owner.null /\ ~vin.b.owner.null

KeysEqualIffSameRecord ==
    /\ vout.a.ret > 0 /\ vout.b.ret > 0
    /\ (vout.a.key = vout.b.key) <=> SameRecord(vin.a, vin.b)
    /\ (vout.a.key = vout.b.key) => vout.a.ret = vout.b.ret

\* C16 as stated: two calls of kr_rrkey give equal keys and lengths exactly
\* when class, type and discriminator are equal and the owners are equal
\* ignoring ASCII case, and the class, type and discriminator fields occupy
\* 2 bytes each.
C16_KeyFieldsTwoBytes ==
    RRKeyReturned =>
        /\ KeysEqualIffSameRecord
        /\ vout.a.ret - (Len(vin.a.owner.bytes) - 1) = 3 * 2

\* C16, amended: the keys are equal exactly when the records are; the key is
\* the class, the lowercased owner without its root label, the type and the
\* discriminator, each number as 5 decimal digits, and the returned length
\* is the length of the key.
C16_KeyFieldsFiveDigits ==
    RRKeyReturned =>
        /\ KeysEqualIffSameRecord
        /\ \A c \in {"a", "b"} :
              LET in == vin[c]
                  out == vout[c]
                  o == in.owner.bytes
              IN  /\ out.ret = Len(out.key.bytes)
                  /\ out.ret = 5 + (Len(o) - 1) + 5 + 5
                  /\ SubSeq(out.key.bytes, 1, 5) = Decimal5(in.class)
                  /\ \A i \in 1..(Len(o) - 1) :
                        out.key.bytes[5 + i] = LowerByte(o[i])
                  /\ SubSeq(out.key.bytes, Len(o) + 5, Len(o) + 9) = Decimal5(in.type)
                  /\ SubSeq(out.key.bytes, Len(o) + 10, Len(o) + 14)
                        = Decimal5(in.additional)

\* C16 witness: two calls with owners that differ in case only have given
\* the same key.
C16_Witness ==
    /\ RRKeyReturned
    /\ vin.a.owner # vin.b.owner
    /\ vout.a.key = vout.b.key

\* -------------------------------------------------- claims: pkt_recycle

\* The packet has its ID and flags as before and the counters after
\* QDCOUNT cleared.
HeaderKept ==
    /\ SubSeq(vout.pkt.wire, 1, 4) = SubSeq(vin.pkt.wire, 1, 4)
    /\ wire_u16(vout.pkt.wire, 6) = 0
    /\ wire_u16(vout.pkt.wire, 8) = 0
    /\ wire_u16(vout.pkt.wire, 10) = 0

Recycled ==
    /\ Len(vout.pkt.wire) = 12
    /\ HeaderKept
    /\ wire_u16(vout.pkt.wire, 4) = 0

\* The length of the question the wire holds after the header: the name,
\* QTYPE and QCLASS; 0 when there is none.
QuestionLen(wire) ==
    LET len == knot_dname_wire_check(wire, 12, 0)
    IN  IF len > 0 /\ 12 + len + 4 <= Len(wire) THEN len + 4 ELSE 0

\* C17: kr_pkt_recycle leaves a packet of size 12 with ID and flags as
\* before and all four counters 0; kr_pkt_clear_payload on a packet with
\* QDCOUNT not 0 keeps ID, flags and the question bytes, sets QDCOUNT to 1
\* and the other counters to 0, and with QDCOUNT 0 does what kr_pkt_recycle
\* does.
C17_RecycleKeepsHeaderAndQuestion ==
    /\ vout.op = "recycle" => Recycled
    /\ vout.op = "clear_payload" =>
          IF wire_u16(vin.pkt.wire, 4) = 0 THEN Recycled
          ELSE LET qlen == QuestionLen(vin.pkt.wire)
               IN  /\ HeaderKept
                   /\ wire_u16(vout.pkt.wire, 4) = 1
                   /\ Len(vout.pkt.wire) = 12 + qlen
                   /\ SubSeq(vout.pkt.wire, 13, 12 + qlen)
                         = SubSeq(vin.pkt.wire, 13, 12 + qlen)

\* ------------------------------------------------------ claims: u16tostr

\* The 5 decimal digits of n as characters.
DecimalChars5(n) ==
    LET d == <<"0", "1", "2", "3", "4", "5", "6", "7", "8", "9">>
    IN  <<d[((n \div 10000) % 10) + 1], d[((n \div 1000) % 10) + 1],
          d[((n \div 100) % 10) + 1], d[((n \div 10) % 10) + 1], d[(n % 10) + 1]>>

\* The string ends with '#' and the 5 decimal digits of port, and has no
\* other '#'.
PortSuffix(s, port) ==
    /\ Len(s) >= 6
    /\ strchr(s, "#") = Len(s) - 5
    /\ SubSeq(s, Len(s) - 4, Len(s)) = DecimalChars5(port)

\* C18: for every num in 0..65535 u16tostr writes exactly 5 characters, the
\* zero-padded decimal digits of num, and so what a successful kr_ntop_str
\* or kr_straddr_join writes after '#' is the 5-digit decimal of the port.
C18_FiveDecimalDigits ==
    /\ vout.op = "u16tostr" =>
          /\ vout.ret = 5
          /\ Len(vout.dst) = 5
          /\ vout.dst = Decimal5(vin.num)
    /\ (vout.op \in {"join", "ntop"} /\ vout.ret = kr_ok) =>
          /\ PortSuffix(vout.buf.bytes, vin.port)
          /\ vout.buflen.val \in {Len(vout.buf.bytes), Len(vout.buf.bytes) + 1}

\* u16tostr has written the digits of the largest value, and a port has
\* been joined to an address.
C18_Witness ==
    \/ vout.op = "u16tostr" /\ vin.num = UINT16_MAX /\ vout.dst = <<54, 53, 53, 51, 53>>
    \/ vout.op = "join" /\ vout.ret = kr_ok /\ vin.port = 853

\* ------------------------------------------------ claims: kr_rnd_buffered

\* The call of this step has returned.
RndReturned == vout'.op = "rnd" /\ ~vout'.aborted

\* C21: over any sequence of kr_rnd_buffered calls buf_begin stays within
\* 0..64; every call that returns has filled all the bytes asked for with
\* bytes gnutls_rnd has produced; no byte is handed out to more than one
\* call or twice within a call; and a request of more than 64 bytes leaves
\* buf_begin as it was.
C21_RandomBytesHandedOnce ==
    [][ /\ buf_begin' \in 0..RndBufSize
        /\ RndReturned =>
              /\ Len(vout'.data) = vout'.size
              /\ \A i \in 1..Len(vout'.data) :
                    /\ vout'.data[i][1] >= 1
                    /\ vout'.data[i] \notin handed
                    /\ \A j \in 1..Len(vout'.data) :
                          vout'.data[i] = vout'.data[j] => i = j
        /\ (vout'.op = "rnd" /\ vout'.size > RndBufSize) => buf_begin' = buf_begin
      ]_vars

\* A call has taken the rest of one refill and the start of the next, after
\* earlier calls were served from the buffer.
C21_Witness ==
    /\ vout.op = "rnd" /\ ~vout.aborted
    /\ vout.size = 33 /\ buf_begin = 2
    /\ vout.data[1][1] # vout.data[33][1]
    /\ Cardinality(handed) = 66

====
